---------------------------- MODULE Spec2Model ----------------------------
(***************************************************************************)
(* Availability, pricing and unit assignment of the multi-tenant hotel     *)
(* booking application (routers/public.py, routers/admin.py, core.py).     *)
(*                                                                         *)
(* Dates are day numbers 0..MaxDay; a datetime is a number of hours,       *)
(* DT(d, h) = 24 d + h.  Python floats are modelled as binary floating     *)
(* point numbers with FloatPrecision significant bits and round-to-        *)
(* nearest-even after every operation; a float value v is held as the      *)
(* integer v * Unit.                                                       *)
(***************************************************************************)
EXTENDS Integers, Sequences, FiniteSets, TLC

\* ------------------------------------------------------------- bounds
MaxDay == 3
MaxAudit == 2
MaxRoomsNeeded == 2
FloatPrecision == 8
FracBits == 3
\* Room ids and unit ids the store hands out in a run.
MaxRoomId == 3
MaxUnitId == 5
\* Largest qty entered for a room type, and most rooms of one request.
MaxQty == 2
MaxParty == 3

\* Users there can be: the four create_hotel makes and those add_user adds.
MaxUserId == 5

\* ------------------------------------------------------------- time
HoursPerDay == 24
CheckInHour == 14
CheckOutHour == 11

Days == 0..MaxDay

\* datetime.strptime(d, "%Y-%m-%d").replace(hour=h, minute=0)
DT(d, h) == d * HoursPerDay + h

\* datetime.date()
DateOf(t) == t \div HoursPerDay

\* ------------------------------------------------------------- floats
RECURSIVE Pow2(_)
Pow2(k) == IF k = 0 THEN 1 ELSE 2 * Pow2(k - 1)

\* One float unit: values are multiples of 1/Unit = 2^-FracBits.
Unit == Pow2(FracBits)

\* Mantissas are below 2^FloatPrecision.
MantissaLimit == Pow2(FloatPrecision)

\* The spacing of the floats around n: the least power of two q, from q
\* on, with n / q below MantissaLimit.
RECURSIVE Ulp(_, _)
Ulp(n, q) == IF n \div q < MantissaLimit THEN q ELSE Ulp(n, 2 * q)

\* Round to FloatPrecision significant bits, ties to even.
Fl(n) ==
  LET q == Ulp(n, 1)
  IN  IF q = 1 THEN n
      ELSE LET m == n \div q
               r == n % q
           IN  IF 2 * r < q THEN m * q
               ELSE IF 2 * r > q THEN (m + 1) * q
               ELSE IF m % 2 = 0 THEN m * q ELSE (m + 1) * q

\* float + float
FAdd(a, b) == Fl(a + b)

\* float * float, for a whole-valued a (a is a multiple of Unit)
FMul(a, b) == Fl((a \div Unit) * b)

\* float * int
FMulInt(a, n) == Fl(a * n)

\* ------------------------------------------------------------- store
VARIABLES rooms, nextRoomId, units, labels, nextUnitId, bookings,
          nextBookingId, blocks, nextBlockId, seasons, nextSeasonId, audit,
          last, txn, users, nextUserId, cookie

\* The staff users of the tenants and the access_token cookie of the browser.
accounts == <<users, nextUserId, cookie>>

\* The room types and their units.
inventory == <<rooms, nextRoomId, units, labels, nextUnitId>>

vars == <<rooms, nextRoomId, units, labels, nextUnitId, bookings,
          nextBookingId, blocks, nextBlockId, seasons, nextSeasonId, audit,
          last, txn, users, nextUserId, cookie>>

\* Everything but the response to the last request.
store == <<rooms, nextRoomId, units, labels, nextUnitId, bookings,
            nextBookingId, blocks, nextBlockId, seasons, nextSeasonId, audit,
            txn, users, nextUserId, cookie>>

\* Tenants (SiteConfig rows); a tenant's extension stands for its id.
Sites == {1, 2}

\* Python None for an optional foreign key.
None == 0

ActiveStatuses == {"confirmed", "pending", "checked_in"}

\* What the last request was and what it answered.
NoRequest ==
  [op |-> "none", site |-> 0, room |-> 0, unit |-> 0, id |-> 0, ci |-> 0,
   co |-> 0, n |-> 0, status |-> "", result |-> "", total |-> 0, nights |-> 0,
   made |-> {}, role |-> "", today |-> 0]

\* The book_confirm requests in flight, one per worker process.
Procs == {1, 2}

\* A worker between requests.  read holds the booking rows the inventory
\* check of the request saw, stale whether they had changed by its commit.
Idle ==
  [pc |-> "idle", site |-> 0, room |-> 0, ci |-> 0, co |-> 0, n |-> 0,
   read |-> {}, assigned_units |-> <<>>, total_one |-> 0, total_all |-> 0,
   result |-> "", stale |-> FALSE]

\* log_activity: one AuditLog row added to the session.
LogEntry(site, user, action, target, details) ==
  [site |-> site, user |-> user, action |-> action, target |-> target,
   details |-> details]

\* The row a query's .first() returns: the one stored first.
First(S) == CHOOSE r \in S : \A q \in S : r.id <= q.id

\* ------------------------------------------------------------- pricing
\* Value of a float exception escaping calculate_price (room is None).
Raised == -1

\* SeasonRows with the end date left out of the rate's range.
SeasonRowsHalfOpen(config_id, room_type_id, date) ==
  {s \in seasons : /\ s.site = config_id
                   /\ s.room = room_type_id
                   /\ s.start <= date
                   /\ s.end > date}

\* models.SeasonalRate rows of one scope whose range holds the date.
SeasonRows(config_id, room_type_id, date) ==
  {s \in seasons : /\ s.site = config_id
                   /\ s.room = room_type_id
                   /\ s.start <= date
                   /\ s.end >= date}

\* Multiplier with the two lookups in the other order: the tenant-wide rate
\* first.
MultiplierTenantWideFirst(config_id, room_id, date) ==
  LET own  == SeasonRows(config_id, room_id, date)
      wide == SeasonRows(config_id, None, date)
  IN  IF wide # {} THEN First(wide).mult
      ELSE IF own # {} THEN First(own).mult
      ELSE Unit

\* The multiplier of one night: the room type's rate, else the tenant-wide
\* rate, else 1.0.
Multiplier(config_id, room_id, date) ==
  LET own  == SeasonRows(config_id, room_id, date)
      wide == SeasonRows(config_id, None, date)
  IN  IF own # {} THEN First(own).mult
      ELSE IF wide # {} THEN First(wide).mult
      ELSE Unit

\* The room calculate_price reads: of that id and of that tenant.
RoomOf(config_id, room_id) ==
  IF room_id \in DOMAIN rooms /\ rooms[room_id].site = config_id
  THEN room_id ELSE None

\* PriceLoop comparing dates instead of datetimes, so that the check-out date
\* is charged as well.
RECURSIVE PriceLoopThroughCheckout(_, _, _, _, _)
PriceLoopThroughCheckout(config_id, room_id, curr, end, total) ==
  IF DateOf(curr) <= DateOf(end)
  THEN IF RoomOf(config_id, room_id) = None THEN Raised
       ELSE PriceLoopThroughCheckout(config_id, room_id, curr + HoursPerDay,
              end, FAdd(total, FMul(rooms[room_id].price,
                                    Multiplier(config_id, room_id,
                                               DateOf(curr)))))
  ELSE total

\* The while loop of calculate_price, from curr with the running total.
RECURSIVE PriceLoop(_, _, _, _, _)
PriceLoop(config_id, room_id, curr, end, total) ==
  IF curr < end
  THEN IF RoomOf(config_id, room_id) = None THEN Raised
       ELSE PriceLoop(config_id, room_id, curr + HoursPerDay, end,
                      FAdd(total, FMul(rooms[room_id].price,
                           Multiplier(config_id, room_id, DateOf(curr)))))
  ELSE total

\* calculate_price returning the night-sum without the unit count.
calculate_price_without_count(config_id, room_id, start, end, count) ==
  PriceLoop(config_id, room_id, start, end, 0)

calculate_price(config_id, room_id, start, end, count) ==
  LET total == PriceLoop(config_id, room_id, start, end, 0)
  IN  IF total = Raised THEN Raised ELSE FMulInt(total, count)

\* (c_out - c_in).days
DaysBetween(c_in, c_out) == (c_out - c_in) \div HoursPerDay

\* ------------------------------------------------------------- seasons
\* The conflict query with a half-open test, letting a rate start on the
\* date another one ends.
SeasonConflictHalfOpen(config_id, room_type_id, s_date, e_date) ==
  {s \in seasons : /\ s.site = config_id
                   /\ s.room = room_type_id
                   /\ s.start < e_date
                   /\ s.end > s_date}

\* add_season's conflict query.
SeasonConflict(config_id, room_type_id, s_date, e_date) ==
  {s \in seasons : /\ s.site = config_id
                   /\ s.room = room_type_id
                   /\ s.start <= e_date
                   /\ s.end >= s_date}

add_season(site, room_type_id, s_date, e_date, multiplier) ==
  LET req == [NoRequest EXCEPT !.op = "add_season"]
  IN  IF e_date <= s_date
      THEN /\ last' = [req EXCEPT !.result = "end_not_after_start"]
           /\ UNCHANGED store
      ELSE IF SeasonConflict(site, room_type_id, s_date, e_date) # {}
      THEN /\ last' = [req EXCEPT !.result = "overlap"]
           /\ UNCHANGED store
      ELSE /\ Len(audit) < MaxAudit
           /\ seasons' = seasons \cup
                {[id |-> nextSeasonId, site |-> site, room |-> room_type_id,
                  start |-> s_date, end |-> e_date, mult |-> multiplier]}
           /\ nextSeasonId' = nextSeasonId + 1
           /\ audit' = Append(audit, LogEntry(site, "Admin", "Add Season",
                                              nextSeasonId, "x"))
           /\ last' = [req EXCEPT !.result = "ok"]
           /\ UNCHANGED <<accounts, txn, inventory, bookings, nextBookingId, blocks,
                          nextBlockId>>

delete_season(site, season_id) ==
  LET s == {r \in seasons : r.id = season_id /\ r.site = site}
  IN  /\ seasons' = seasons \ s
      /\ last' = [NoRequest EXCEPT !.op = "delete_season",
                    !.result = IF s # {} THEN "ok" ELSE "not_found"]
      /\ UNCHANGED <<accounts, txn, inventory, bookings, nextBookingId, blocks,
                     nextBlockId, nextSeasonId, audit>>

api_calculate_price(site, room_id, check_in, check_out, rooms_needed) ==
  LET c_in  == DT(check_in, CheckInHour)
      c_out == DT(check_out, CheckOutHour)
      req   == [NoRequest EXCEPT !.op = "calculate_price", !.site = site,
                  !.room = room_id, !.ci = check_in, !.co = check_out,
                  !.n = rooms_needed]
      total == calculate_price(site, room_id, c_in, c_out, rooms_needed)
  IN  /\ last' = IF c_out <= c_in THEN [req EXCEPT !.result = "invalid_dates"]
                 ELSE IF total = Raised THEN [req EXCEPT !.result = "error"]
                 ELSE [req EXCEPT !.result = "ok", !.total = total,
                                  !.nights = DaysBetween(c_in, c_out)]
      /\ UNCHANGED store

\* ------------------------------------------------------------- availability
RECURSIVE SumQty(_)
SumQty(B) ==
  IF B = {} THEN 0
  ELSE LET m == CHOOSE x \in B : TRUE IN m.qty + SumQty(B \ {m})

OccupiedRowsWithoutPending(config_id, room_type_id, curr, next_day) ==
  {b \in bookings : /\ b.site = config_id
                    /\ b.room = room_type_id
                    /\ b.status \in {"confirmed", "checked_in"}
                    /\ b.check_in < next_day
                    /\ b.check_out > curr}

\* The bookings counted as occupying the window [curr, next_day).
OccupiedRows(config_id, room_type_id, curr, next_day) ==
  {b \in bookings : /\ b.site = config_id
                    /\ b.room = room_type_id
                    /\ b.status \in ActiveStatuses
                    /\ b.check_in < next_day
                    /\ b.check_out > curr}

BlockedRowsStartedEarlier(room_type_id, curr, next_day) ==
  {m \in blocks : /\ m.room = room_type_id
                  /\ m.start < DateOf(curr)
                  /\ m.end > DateOf(curr)}

\* The maintenance blocks counted against the window [curr, next_day).
BlockedRows(room_type_id, curr, next_day) ==
  {m \in blocks : /\ m.room = room_type_id
                  /\ m.start < DateOf(next_day)
                  /\ m.end > DateOf(curr)}

\* The first night alone decides.
AvailabilityLoopFirstNight(config_id, room_type_id, curr, end_date, total_qty, min_availability) ==
  IF curr < end_date
  THEN LET next_day == curr + HoursPerDay
           occupied_count ==
             Cardinality(OccupiedRows(config_id, room_type_id, curr, next_day))
           blocked_count == SumQty(BlockedRows(room_type_id, curr, next_day))
           available_tonight == total_qty - occupied_count - blocked_count
       IN  IF available_tonight <= 0 THEN <<FALSE, 0>>
           ELSE <<TRUE, available_tonight>>
  ELSE <<TRUE, min_availability>>

\* The while loop of check_inventory_availability: <<is_avail, count>>.
RECURSIVE AvailabilityLoop(_, _, _, _, _, _)
AvailabilityLoop(config_id, room_type_id, curr, end_date, total_qty, min_availability) ==
  IF curr < end_date
  THEN LET next_day == curr + HoursPerDay
           occupied_count ==
             Cardinality(OccupiedRows(config_id, room_type_id, curr, next_day))
           blocked_count == SumQty(BlockedRows(room_type_id, curr, next_day))
           available_tonight == total_qty - occupied_count - blocked_count
       IN  IF available_tonight <= 0 THEN <<FALSE, 0>>
           ELSE AvailabilityLoop(config_id, room_type_id, next_day, end_date,
                  total_qty,
                  IF available_tonight < min_availability
                  THEN available_tonight ELSE min_availability)
  ELSE <<TRUE, min_availability>>

check_inventory_availability(config_id, room_type_id, start_date, end_date, total_qty) ==
  AvailabilityLoop(config_id, room_type_id, start_date, end_date, total_qty,
                   total_qty)

\* The inventory check as book_confirm calls it for a stay from date check_in
\* to date check_out, its answer made visible.
inventory_check(site, room_id, check_in, check_out) ==
  LET avail == check_inventory_availability(site, room_id,
                 DT(check_in, CheckInHour), DT(check_out, CheckOutHour),
                 rooms[room_id].qty)
  IN  /\ last' = [NoRequest EXCEPT !.op = "inventory_check", !.site = site,
                    !.room = room_id, !.ci = check_in, !.co = check_out,
                    !.result = IF avail[1] THEN "available" ELSE "unavailable",
                    !.n = avail[2]]
      /\ UNCHANGED store

\* hotel_search for one guest: the tenant's room types that the inventory
\* check, called with the form's dates at 00:00, finds available, each with
\* its count and its price for one unit.
hotel_search(site, check_in, check_out) ==
  LET c_in  == DT(check_in, 0)
      c_out == DT(check_out, 0)
      req   == [NoRequest EXCEPT !.op = "hotel_search", !.site = site,
                  !.ci = check_in, !.co = check_out]
      avail(r) == check_inventory_availability(site, r, c_in, c_out,
                                               rooms[r].qty)
      available_rooms ==
        {<<r, avail(r)[2], calculate_price(site, r, c_in, c_out, 1)>> :
           r \in {q \in DOMAIN rooms : rooms[q].site = site /\ avail(q)[1]}}
  IN  /\ last' = IF c_out <= c_in
                 THEN [req EXCEPT !.result = "invalid_range"]
                 ELSE [req EXCEPT !.result = "ok", !.made = available_rooms]
      /\ UNCHANGED store

\* ------------------------------------------------------------- calendar
\* curr + timedelta(hours=23, minutes=59): every stored datetime is on a whole
\* hour, so comparing with 23:00 gives what comparing with 23:59 gives.
LastHour == 23

\* The statuses the calendar's count takes.
CalendarStatuses == {"confirmed", "pending"}

\* func.sum(RoomType.total_quantity) over the room types in R.
RECURSIVE SumTotalQuantity(_)
SumTotalQuantity(R) ==
  IF R = {} THEN 0
  ELSE LET r == CHOOSE x \in R : TRUE
       IN  rooms[r].qty + SumTotalQuantity(R \ {r})

\* remaining of one date: for a room type, or with room_id unset (or 0) over
\* every room type of every tenant.
CalendarRemaining(room_id, d) ==
  LET check_time == DT(d, LastHour)
      booked  == {b \in bookings : /\ room_id # None => b.room = room_id
                                   /\ b.status \in CalendarStatuses
                                   /\ b.check_in <= check_time
                                   /\ b.check_out > check_time}
      blocked == {m \in blocks : /\ room_id # None => m.room = room_id
                                 /\ m.start <= d
                                 /\ m.end > d}
      total   == IF room_id # None THEN rooms[room_id].qty
                 ELSE SumTotalQuantity(DOMAIN rooms)
  IN  total - Cardinality(booked) - SumQty(blocked)

\* get_calendar_events: made holds the dates of [start, end) drawn green.
get_calendar_events(start, end, room_id) ==
  LET req == [NoRequest EXCEPT !.op = "get_calendar_events", !.room = room_id,
                !.ci = start, !.co = end]
  IN  /\ last' = IF start < end /\ room_id # None /\ room_id \notin DOMAIN rooms
                 THEN [req EXCEPT !.result = "no_room"]
                 ELSE [req EXCEPT !.result = "ok",
                         !.made = {d \in start..(end - 1) :
                                     CalendarRemaining(room_id, d) > 0}]
      /\ UNCHANGED store

\* ------------------------------------------------------------- assignment
SecondsPerHour == 3600

\* The gap given to a unit with no prior booking, in seconds.
NoPriorGap == 999999999

PriorStatuses == {"confirmed", "checked_in", "checked_out"}

\* The conflict query without its status filter, as new_booking_save's scan
\* has it.
UnitConflictAnyStatus(u, c_in, c_out) ==
  {b \in bookings : /\ b.unit = u
                    /\ b.check_in < c_out
                    /\ b.check_out > c_in}

\* book_confirm's conflict query for a unit.
UnitConflict(u, c_in, c_out) ==
  {b \in bookings : /\ b.unit = u
                    /\ b.check_in < c_out
                    /\ b.check_out > c_in
                    /\ b.status \in ActiveStatuses}

\* book_confirm's maintenance query for a unit.
UnitMaintenance(u, c_in, c_out) ==
  {m \in blocks : /\ m.unit = u
                  /\ m.start < DateOf(c_out)
                  /\ m.end > DateOf(c_in)}

CandidatesWithAssigned(room_id, c_in, c_out, assigned_units) ==
  {u \in DOMAIN units : /\ units[u] = room_id
                        /\ UnitConflict(u, c_in, c_out) = {}
                        /\ UnitMaintenance(u, c_in, c_out) = {}}

Candidates(room_id, c_in, c_out, assigned_units) ==
  {u \in DOMAIN units : /\ units[u] = room_id
                        /\ u \notin assigned_units
                        /\ UnitConflict(u, c_in, c_out) = {}
                        /\ UnitMaintenance(u, c_in, c_out) = {}}

\* Seconds from the unit's latest prior check-out to the new check-in.
Gap(u, c_in) ==
  LET prior == {b \in bookings : /\ b.unit = u
                                 /\ b.check_out <= c_in
                                 /\ b.status \in PriorStatuses}
  IN  IF prior # {}
      THEN (c_in - (CHOOSE b \in prior :
                      \A q \in prior : q.check_out <= b.check_out).check_out)
             * SecondsPerHour
      ELSE NoPriorGap

BestUnitsAny(candidates, c_in) == candidates

\* The units the scan for the smallest gap can end on: all_units comes in
\* store order, so any candidate of least gap can be the first one met.
BestUnits(candidates, c_in) ==
  {u \in candidates : \A v \in candidates : Gap(u, c_in) <= Gap(v, c_in)}

Range(f) == {f[i] : i \in DOMAIN f}

\* The lists assigned_units the assignment loop can build in k more rounds.
RECURSIVE Assignments(_, _, _, _, _)
Assignments(room_id, c_in, c_out, k, assigned_units) ==
  IF k = 0 THEN {assigned_units}
  ELSE LET candidates ==
             Candidates(room_id, c_in, c_out, Range(assigned_units))
       IN  IF candidates = {}
           THEN Assignments(room_id, c_in, c_out, k - 1,
                            Append(assigned_units, None))
           ELSE UNION {Assignments(room_id, c_in, c_out, k - 1,
                                   Append(assigned_units, u)) :
                         u \in BestUnits(candidates, c_in)}

\* ------------------------------------------------------------- bookings
Booking(id, site, room, unit, c_in, c_out, status, total) ==
  [id |-> id, site |-> site, room |-> room, unit |-> unit, check_in |-> c_in,
   check_out |-> c_out, status |-> status, total_price |-> total,
   rooms_booked |-> 1]

InsertBookingsSkippingUnassigned(site, room_id, c_in, c_out, assigned_units, total_one) ==
  LET k == Len(assigned_units)
      kept == {i \in 1..k : assigned_units[i] # None}
  IN  /\ bookings' = bookings \cup
           {Booking(nextBookingId + i - 1, site, room_id, assigned_units[i],
                    c_in, c_out, "pending", total_one) : i \in kept}
      /\ audit' = audit \o
           [i \in 1..k |->
              LogEntry(site, "Guest", "New Booking", nextBookingId + i - 1,
                       IF assigned_units[i] = None
                       THEN "UNASSIGNED" ELSE "unit")]
      /\ nextBookingId' = nextBookingId + k

InsertBookingsOneEntry(site, room_id, c_in, c_out, assigned_units, total_one) ==
  LET k == Len(assigned_units)
  IN  /\ bookings' = bookings \cup
           {Booking(nextBookingId + i - 1, site, room_id, assigned_units[i],
                    c_in, c_out, "pending", total_one) : i \in 1..k}
      /\ audit' = Append(audit, LogEntry(site, "Guest", "New Booking",
                                         nextBookingId, "unit"))
      /\ nextBookingId' = nextBookingId + k

\* InsertBookings storing the guest-facing total on every row.
InsertBookingsGuestTotal(site, room_id, c_in, c_out, assigned_units, total_one) ==
  LET k == Len(assigned_units)
  IN  /\ bookings' = bookings \cup
           {Booking(nextBookingId + i - 1, site, room_id, assigned_units[i],
                    c_in, c_out, "pending", FMulInt(total_one, k)) :
              i \in 1..k}
      /\ audit' = audit \o
           [i \in 1..k |->
              LogEntry(site, "Guest", "New Booking", nextBookingId + i - 1,
                       IF assigned_units[i] = None
                       THEN "UNASSIGNED" ELSE "unit")]
      /\ nextBookingId' = nextBookingId + k

\* Step 3 of book_confirm: one row and one log entry per room, then commit.
InsertBookings(site, room_id, c_in, c_out, assigned_units, total_one) ==
  LET k == Len(assigned_units)
  IN  /\ bookings' = bookings \cup
           {Booking(nextBookingId + i - 1, site, room_id, assigned_units[i],
                    c_in, c_out, "pending", total_one) : i \in 1..k}
      /\ audit' = audit \o
           [i \in 1..k |->
              LogEntry(site, "Guest", "New Booking", nextBookingId + i - 1,
                       IF assigned_units[i] = None
                       THEN "UNASSIGNED" ELSE "unit")]
      /\ nextBookingId' = nextBookingId + k

book_confirm_partial(site, room_id, check_in, check_out, rooms_needed) ==
  LET c_in  == DT(check_in, CheckInHour)
      c_out == DT(check_out, CheckOutHour)
      avail == check_inventory_availability(site, room_id, c_in, c_out,
                                            rooms[room_id].qty)
      total_one == calculate_price(site, room_id, c_in, c_out, 1)
      req   == [NoRequest EXCEPT !.op = "book_confirm", !.site = site,
                  !.room = room_id, !.ci = check_in, !.co = check_out,
                  !.n = rooms_needed]
      k     == IF avail[2] < rooms_needed THEN avail[2] ELSE rooms_needed
  IN  IF ~avail[1]
      THEN /\ last' = [req EXCEPT !.result = "insufficient"]
           /\ UNCHANGED store
      ELSE IF total_one = Raised
      THEN /\ last' = [req EXCEPT !.result = "error"]
           /\ UNCHANGED store
      ELSE /\ Len(audit) + k <= MaxAudit
           /\ \E assigned_units \in Assignments(room_id, c_in, c_out, k, <<>>) :
                 InsertBookings(site, room_id, c_in, c_out, assigned_units,
                                total_one)
           /\ last' = [req EXCEPT
                         !.result = IF k < rooms_needed
                                    THEN "insufficient" ELSE "ok",
                         !.total = FMulInt(total_one, k),
                         !.nights = DaysBetween(c_in, c_out),
                         !.made = {nextBookingId + i - 1 : i \in 1..k}]
           /\ UNCHANGED <<accounts, txn, inventory, blocks, nextBlockId, seasons,
                          nextSeasonId>>

book_confirm(site, room_id, check_in, check_out, rooms_needed) ==
  LET c_in  == DT(check_in, CheckInHour)
      c_out == DT(check_out, CheckOutHour)
      avail == check_inventory_availability(site, room_id, c_in, c_out,
                                            rooms[room_id].qty)
      total_one == calculate_price(site, room_id, c_in, c_out, 1)
      req   == [NoRequest EXCEPT !.op = "book_confirm", !.site = site,
                  !.room = room_id, !.ci = check_in, !.co = check_out,
                  !.n = rooms_needed]
  IN  IF ~avail[1] \/ avail[2] < rooms_needed
      THEN /\ last' = [req EXCEPT !.result = "insufficient"]
           /\ UNCHANGED store
      ELSE IF total_one = Raised
      THEN /\ last' = [req EXCEPT !.result = "error"]
           /\ UNCHANGED store
      ELSE /\ Len(audit) + rooms_needed <= MaxAudit
           /\ \E assigned_units \in
                 Assignments(room_id, c_in, c_out, rooms_needed, <<>>) :
                 InsertBookings(site, room_id, c_in, c_out, assigned_units,
                                total_one)
           /\ last' = [req EXCEPT !.result = "ok",
                         !.total = FMulInt(total_one, rooms_needed),
                         !.nights = DaysBetween(c_in, c_out),
                         !.made = {nextBookingId + i - 1 :
                                     i \in 1..rooms_needed}]
           /\ UNCHANGED <<accounts, txn, inventory, blocks, nextBlockId, seasons,
                          nextSeasonId>>

\* The commit of a booking row whose room_unit_id names no unit: the store
\* keeps the row as written, or, where it checks foreign keys, can raise
\* IntegrityError instead.  The engine is set up outside these sources, so
\* both outcomes are open.
RejectedByStore(room_unit_id) ==
  room_unit_id # None /\ room_unit_id \notin DOMAIN units

\* new_booking_save: the units its scan can stop at when none is given.
FreeUnits(room_id, c_in, c_out) ==
  {u \in DOMAIN units :
     /\ units[u] = room_id
     /\ {b \in bookings : b.unit = u /\ b.check_in < c_out
                            /\ b.check_out > c_in} = {}}

new_booking_save(site, room_id, room_unit_id, check_in, check_out, status) ==
  LET c_in  == DT(check_in, CheckInHour)
      c_out == DT(check_out, CheckOutHour)
      finals == IF room_unit_id # None THEN {room_unit_id}
                ELSE FreeUnits(room_id, c_in, c_out)
      total == calculate_price(site, room_id, c_in, c_out, 1)
      req   == [NoRequest EXCEPT !.op = "new_booking"]
  IN  IF finals = {}
      THEN /\ last' = [req EXCEPT !.result = "no_unit"]
           /\ UNCHANGED store
      ELSE IF total = Raised
      THEN /\ last' = [req EXCEPT !.result = "error"]
           /\ UNCHANGED store
      ELSE \/ /\ Len(audit) < MaxAudit
              /\ \E final_unit_id \in finals :
                    bookings' = bookings \cup
                      {Booking(nextBookingId, site, room_id, final_unit_id,
                               c_in, c_out, status, total)}
              /\ nextBookingId' = nextBookingId + 1
              /\ audit' = Append(audit, LogEntry(site, "Admin",
                                    "Create Booking", nextBookingId, "manual"))
              /\ last' = [req EXCEPT !.result = "ok", !.made = {nextBookingId}]
              /\ UNCHANGED <<accounts, txn, inventory, blocks, nextBlockId, seasons,
                             nextSeasonId>>
           \/ /\ RejectedByStore(room_unit_id)
              /\ last' = [req EXCEPT !.result = "error"]
              /\ UNCHANGED store

\* The repricing test, were a changed status to pass it as well.
DatesOrStatusDiffer(booking, c_in, c_out, status) ==
  \/ booking.check_in # c_in
  \/ booking.check_out # c_out
  \/ booking.status # status

\* The repricing test of edit_booking_save: room_type_id and rooms_booked
\* are compared with themselves, which leaves the dates.
DatesDiffer(booking, c_in, c_out, status) ==
  \/ booking.check_in # c_in
  \/ booking.check_out # c_out
  \/ booking.room # booking.room
  \/ booking.rooms_booked # booking.rooms_booked

edit_booking_save(site, booking_id, check_in, check_out, room_unit_id, status) ==
  LET found == {b \in bookings : b.id = booking_id /\ b.site = site}
      booking == First(found)
      c_in  == DT(check_in, CheckInHour)
      c_out == DT(check_out, CheckOutHour)
      redo  == DatesDiffer(booking, c_in, c_out, status)
      new_total == calculate_price(site, booking.room, c_in, c_out,
                                   booking.rooms_booked)
      req   == [NoRequest EXCEPT !.op = "edit_booking"]
  IN  IF found = {} \/ (redo /\ new_total = Raised)
      THEN /\ last' = [req EXCEPT !.result = "error"]
           /\ UNCHANGED store
      ELSE \/ /\ booking.status # status => Len(audit) < MaxAudit
              /\ bookings' = (bookings \ {booking}) \cup
                   {[booking EXCEPT
                       !.total_price = IF redo THEN new_total ELSE @,
                       !.check_in = c_in, !.check_out = c_out,
                       !.unit = room_unit_id, !.status = status]}
              /\ audit' = IF booking.status # status
                          THEN Append(audit, LogEntry(site, "Admin",
                                        "Update Booking", booking_id, status))
                          ELSE audit
              /\ last' = [req EXCEPT !.result = "ok", !.made = {booking_id}]
              /\ UNCHANGED <<accounts, txn, inventory, nextBookingId, blocks,
                             nextBlockId, seasons, nextSeasonId>>
           \/ /\ RejectedByStore(room_unit_id)
              /\ last' = [req EXCEPT !.result = "error"]
              /\ UNCHANGED store

delete_booking(site, booking_id) ==
  LET found == {b \in bookings : b.id = booking_id /\ b.site = site}
      req   == [NoRequest EXCEPT !.op = "delete_booking"]
  IN  IF found = {}
      THEN /\ last' = [req EXCEPT !.result = "not_found"]
           /\ UNCHANGED store
      ELSE /\ Len(audit) < MaxAudit
           /\ bookings' = bookings \ found
           /\ audit' = Append(audit, LogEntry(site, "Admin", "Delete Booking",
                                              booking_id, "deleted"))
           /\ last' = [req EXCEPT !.result = "ok"]
           /\ UNCHANGED <<accounts, txn, inventory, nextBookingId, blocks, nextBlockId,
                          seasons, nextSeasonId>>

\* ------------------------------------------------------------- maintenance
add_maintenance(site, unit_id, start, end) ==
  LET req == [NoRequest EXCEPT !.op = "add_maintenance"]
  IN  IF unit_id \notin DOMAIN units \/ rooms[units[unit_id]].site # site
      THEN /\ last' = [req EXCEPT !.result = "invalid_unit"]
           /\ UNCHANGED store
      ELSE /\ Len(audit) < MaxAudit
           /\ blocks' = blocks \cup
                {[id |-> nextBlockId, room |-> units[unit_id],
                  unit |-> unit_id, start |-> start, end |-> end, qty |-> 1]}
           /\ nextBlockId' = nextBlockId + 1
           /\ audit' = Append(audit, LogEntry(site, "Admin", "Block Unit",
                                              unit_id, "reason"))
           /\ last' = [req EXCEPT !.result = "ok"]
           /\ UNCHANGED <<accounts, txn, inventory, bookings, nextBookingId, seasons,
                          nextSeasonId>>

delete_maintenance(site, block_id) ==
  LET found == {m \in blocks : m.id = block_id /\ rooms[m.room].site = site}
  IN  /\ blocks' = blocks \ found
      /\ last' = [NoRequest EXCEPT !.op = "delete_maintenance",
                    !.result = IF found # {} THEN "ok" ELSE "not_found"]
      /\ UNCHANGED <<accounts, txn, inventory, bookings, nextBookingId, nextBlockId,
                     seasons, nextSeasonId, audit>>

\* ------------------------------------------------------------- room types
\* The RoomUnit rows of a room type.
UnitsOf(room_id) == {u \in DOMAIN units : units[u] = room_id}

\* Index (from 1) of unit u among the units U ordered by id.
Position(U, u) == Cardinality({v \in U : v <= u})

\* The bookings as the flush leaves them when the units in deleted go:
\* RoomUnit.bookings has no delete cascade, so the rows of its collection
\* get room_unit_id NULL.
NullifyingUnits(B, deleted) ==
  {IF b.unit \in deleted THEN [b EXCEPT !.unit = None] ELSE b : b \in B}

\* add_room with custom_labels left empty: range(qty) is empty for qty <= 0.
add_room(site, price, qty) ==
  LET created == nextUnitId..(nextUnitId + qty - 1)
  IN  /\ nextRoomId <= MaxRoomId
      /\ nextUnitId + Cardinality(created) - 1 <= MaxUnitId
      /\ Len(audit) < MaxAudit
      /\ rooms' = rooms @@
           (nextRoomId :> [site |-> site, price |-> price, qty |-> qty])
      /\ nextRoomId' = nextRoomId + 1
      /\ units' = units @@ [u \in created |-> nextRoomId]
      /\ labels' = labels @@ [u \in created |-> u - nextUnitId + 1]
      /\ nextUnitId' = nextUnitId + Cardinality(created)
      /\ audit' = Append(audit, LogEntry(site, "Admin", "Create Room",
                                         nextRoomId, "units"))
      /\ last' = [NoRequest EXCEPT !.op = "add_room", !.site = site,
                    !.room = nextRoomId, !.n = qty, !.result = "ok"]
      /\ UNCHANGED <<accounts, txn, bookings, nextBookingId, blocks, nextBlockId,
                     seasons, nextSeasonId>>

\* edit_room_action with custom_labels left empty.  room is None raises
\* AttributeError; a negative qty makes range(qty, len) start at a negative
\* index, which raises IndexError when the list is shorter than -qty and
\* otherwise deletes from the end of the list and then all of it.
edit_room_action(site, room_id, price, qty) ==
  LET found == room_id \in DOMAIN rooms /\ rooms[room_id].site = site
      existing_units == UnitsOf(room_id)
      len == Cardinality(existing_units)
      relabelled == {u \in existing_units : Position(existing_units, u) <= qty}
      excess == IF len > qty THEN existing_units \ relabelled ELSE {}
      created == nextUnitId..(nextUnitId + (qty - len) - 1)
      req == [NoRequest EXCEPT !.op = "edit_room", !.site = site,
                !.room = room_id, !.n = qty, !.made = existing_units]
  IN  IF ~found \/ (qty < 0 /\ 0 - qty > len)
      THEN /\ last' = [req EXCEPT !.result = "error"]
           /\ UNCHANGED store
      ELSE /\ nextUnitId + Cardinality(created) - 1 <= MaxUnitId
           /\ rooms' = [rooms EXCEPT ![room_id].price = price,
                                     ![room_id].qty = qty]
           /\ units' = [u \in (DOMAIN units \ excess) \cup created |->
                          IF u \in created THEN room_id ELSE units[u]]
           /\ labels' = [u \in (DOMAIN units \ excess) \cup created |->
                           IF u \in created THEN len + (u - nextUnitId) + 1
                           ELSE IF u \in relabelled
                                THEN Position(existing_units, u)
                                ELSE labels[u]]
           /\ nextUnitId' = nextUnitId + Cardinality(created)
           /\ bookings' = NullifyingUnits(bookings, excess)
           /\ last' = [req EXCEPT !.result = "ok"]
           /\ UNCHANGED <<accounts, txn, nextRoomId, nextBookingId, blocks, nextBlockId,
                          seasons, nextSeasonId, audit>>

\* The role check of add_user, which lets the role owner through as well.
MayDeleteRoomsAdminOrOwner(role) == role \in {"admin", "owner"}

\* context['user'].role != 'admin' returns "Unauthorized".
MayDeleteRooms(role) == role = "admin"

\* delete_room by a user of the given role, on date today.  The room type's
\* units and seasons go with it (cascade all, delete-orphan); bookings and
\* maintenance blocks keep their room_type_id.
delete_room(site, role, room_id, today) ==
  LET found == room_id \in DOMAIN rooms /\ rooms[room_id].site = site
      active_booking ==
        {b \in bookings : /\ b.room = room_id
                          /\ b.check_out >= DT(today, 0)
                          /\ b.status \in ActiveStatuses}
      deleted == UnitsOf(room_id)
      req == [NoRequest EXCEPT !.op = "delete_room", !.site = site,
                !.role = role, !.room = room_id, !.today = today,
                !.made = deleted]
  IN  IF ~MayDeleteRooms(role)
      THEN /\ last' = [req EXCEPT !.result = "unauthorized"]
           /\ UNCHANGED store
      ELSE IF ~found
      THEN /\ last' = [req EXCEPT !.result = "not_found"]
           /\ UNCHANGED store
      ELSE IF active_booking # {}
      THEN /\ last' = [req EXCEPT !.result = "active_bookings"]
           /\ UNCHANGED store
      ELSE /\ Len(audit) < MaxAudit
           /\ rooms' = [r \in DOMAIN rooms \ {room_id} |-> rooms[r]]
           /\ units' = [u \in DOMAIN units \ deleted |-> units[u]]
           /\ labels' = [u \in DOMAIN units \ deleted |-> labels[u]]
           /\ seasons' = {s \in seasons : s.room # room_id}
           /\ bookings' = NullifyingUnits(bookings, deleted)
           /\ audit' = Append(audit, LogEntry(site, "Admin", "Delete Room",
                                              room_id, "deleted"))
           /\ last' = [req EXCEPT !.result = "ok"]
           /\ UNCHANGED <<accounts, txn, nextRoomId, nextUnitId, nextBookingId, blocks,
                          nextBlockId, nextSeasonId>>

\* ------------------------------------------------------------- accounts
\* The owner's login name and the password OWNER_HASH verifies.
OwnerName == "owner"

OwnerPassword == 0

\* create_hotel gives a tenant an admin and a staff user named after its
\* extension.  A user's password is written as the user's id.
InitUsers ==
  {[id |-> 1, site |-> 1, username |-> "h1_ad", password |-> 1,
    role |-> "admin"],
   [id |-> 2, site |-> 1, username |-> "h1_user", password |-> 2,
    role |-> "staff"],
   [id |-> 3, site |-> 2, username |-> "h2_ad", password |-> 3,
    role |-> "admin"],
   [id |-> 4, site |-> 2, username |-> "h2_user", password |-> 4,
    role |-> "staff"]}

\* No access_token cookie.
NoCookie == [sub |-> "", role |-> "", config_id |-> None]

NoSession == [config |-> None, user |-> None, role |-> "", is_owner |-> FALSE]

\* The user lookup of verify_session: by username alone.
NamedUsers(token) == {u \in users : u.username = token.sub}

\* verify_session for a request under /app/<ext>/: the session data, user
\* standing for the id of the User row (None for the owner's transient one).
verify_session(token, ext) ==
  IF token = NoCookie THEN NoSession
  ELSE IF token.role = "admin_owner"
  THEN [config |-> None, user |-> None, role |-> "admin", is_owner |-> TRUE]
  ELSE IF NamedUsers(token) = {} THEN NoSession
  ELSE LET user == First(NamedUsers(token))
       IN  IF user.site # ext THEN NoSession
           ELSE [config |-> user.site, user |-> user.id, role |-> user.role,
                 is_owner |-> FALSE]

\* The dependency of the back-office handlers: the owner's session takes the
\* tenant of the URL.
verify_hotel_admin(token, ext) ==
  LET session_data == verify_session(token, ext)
  IN  IF session_data.is_owner THEN [session_data EXCEPT !.config = ext]
      ELSE session_data

\* login_action from the login page of tenant context.
login_action(username, password, context) ==
  LET named == {u \in users : u.username = username /\ u.site = context}
      req   == [NoRequest EXCEPT !.op = "login_action", !.site = context]
  IN  /\ IF username = OwnerName /\ password = OwnerPassword
         THEN /\ cookie' = [sub |-> username, role |-> "admin_owner",
                            config_id |-> context]
              /\ last' = [req EXCEPT !.result = "ok"]
         ELSE IF named = {} \/ First(named).password # password
         THEN /\ cookie' = cookie
              /\ last' = [req EXCEPT !.result = "invalid_credentials"]
         ELSE /\ cookie' = [sub |-> username, role |-> First(named).role,
                            config_id |-> context]
              /\ last' = [req EXCEPT !.result = "ok", !.id = First(named).id,
                                     !.role = First(named).role]
      /\ UNCHANGED <<users, nextUserId, txn, inventory, bookings,
                     nextBookingId, blocks, nextBlockId, seasons,
                     nextSeasonId, audit>>

\* hotel_admin, the back-office page of tenant ext, asked for with the
\* browser's cookie: who the session is taken to be.
hotel_admin(ext) ==
  LET context == verify_hotel_admin(cookie, ext)
      req     == [NoRequest EXCEPT !.op = "hotel_admin", !.site = ext]
  IN  /\ last' = IF context = NoSession THEN [req EXCEPT !.result = "login"]
                 ELSE [req EXCEPT !.result = "ok", !.id = context.user,
                                  !.role = context.role]
      /\ UNCHANGED store

\* add_user with the browser's cookie; the new user's password is written as
\* the new id.
add_user(ext, username, role) ==
  LET context == verify_hotel_admin(cookie, ext)
      req     == [NoRequest EXCEPT !.op = "add_user", !.site = ext,
                    !.role = role]
  IN  IF context = NoSession
      THEN /\ last' = [req EXCEPT !.result = "login"]
           /\ UNCHANGED store
      ELSE IF context.role \notin {"admin", "owner"}
      THEN /\ last' = [req EXCEPT !.result = "unauthorized"]
           /\ UNCHANGED store
      ELSE IF \E u \in users : /\ u.username = username
                               /\ u.site = context.config
      THEN /\ last' = [req EXCEPT !.result = "user_exists"]
           /\ UNCHANGED store
      ELSE /\ nextUserId <= MaxUserId
           /\ Len(audit) < MaxAudit
           /\ users' = users \cup
                {[id |-> nextUserId, site |-> context.config,
                  username |-> username, password |-> nextUserId,
                  role |-> role]}
           /\ nextUserId' = nextUserId + 1
           /\ audit' = Append(audit, LogEntry(context.config, "Admin",
                                              "Create User", nextUserId,
                                              "role"))
           /\ last' = [req EXCEPT !.result = "ok", !.id = nextUserId]
           /\ UNCHANGED <<cookie, txn, inventory, bookings, nextBookingId,
                          blocks, nextBlockId, seasons, nextSeasonId>>

\* ------------------------------------------------------------- inventory
\* Two tenants after add_room: tenant 1 has room type 1 (100.0 a night, two
\* units), tenant 2 has room type 2 (80.0 a night, one unit).
InitRooms ==
  (1 :> [site |-> 1, price |-> 100 * Unit, qty |-> 2]) @@
  (2 :> [site |-> 2, price |-> 80 * Unit, qty |-> 1])

InitUnits == (1 :> 1) @@ (2 :> 1) @@ (3 :> 2)

\* The units' labels: add_room numbers the units of a room type from 1.
InitLabels == (1 :> 1) @@ (2 :> 2) @@ (3 :> 1)

RoomIds == DOMAIN InitRooms
UnitIds == DOMAIN InitUnits

Init ==
  /\ rooms = InitRooms
  /\ units = InitUnits
  /\ labels = InitLabels
  /\ nextRoomId = 3
  /\ nextUnitId = 4
  /\ bookings = {}
  /\ nextBookingId = 1
  /\ blocks = {}
  /\ nextBlockId = 1
  /\ seasons = {}
  /\ nextSeasonId = 1
  /\ audit = <<>>
  /\ last = NoRequest
  /\ txn = [p \in Procs |-> Idle]
  /\ users = InitUsers
  /\ nextUserId = Cardinality(InitUsers) + 1
  /\ cookie = NoCookie

\* ------------------------------------------------------------- rates
\* Multipliers an admin enters: 1.5 and 1.125.
Multipliers == {Unit + Unit \div 2, Unit + Unit \div 8}

\* The scopes the admins enter rates for: tenant-wide and room type 1 of
\* tenant 1, tenant-wide of tenant 2.
SeasonScopes == {<<1, None>>, <<1, 1>>, <<2, None>>}

\* The rate administration of both tenants, one request at a time.
NextSeason ==
  \/ \E sc \in SeasonScopes, s \in Days, e \in Days :
        add_season(sc[1], sc[2], s, e, Unit + Unit \div 2)
  \/ \E site \in Sites, id \in 1..MaxAudit : delete_season(site, id)

SpecSeason == Init /\ [][NextSeason]_vars

\* ------------------------------------------------------------- quotes
\* Rate tables add_season can leave behind: at most two rates, of the scopes
\* above or of tenant 1 for room type 2, the earlier rate stored first, no
\* two of one scope sharing a date.
RateRows ==
  {[id |-> i, site |-> sc[1], room |-> sc[2], start |-> s, end |-> e,
    mult |-> m] :
     i \in 1..2, sc \in SeasonScopes \cup {<<1, 2>>},
     s \in Days, e \in Days, m \in Multipliers}

RateTables ==
  {{}} \cup {{a} : a \in {r \in RateRows : r.id = 1 /\ r.start < r.end}}
       \cup UNION {{{a, b} : b \in {r \in RateRows : /\ r.id = 2
                                                      /\ r.start < r.end
                                                      /\ a.start <= r.start}} :
                    a \in {r \in RateRows : r.id = 1 /\ r.start < r.end}}

Disjoint(T) ==
  \A a \in T, b \in T :
     (a # b /\ a.site = b.site /\ a.room = b.room)
        => (a.end < b.start \/ b.end < a.start)

InitPrice ==
  /\ rooms = InitRooms
  /\ units = InitUnits
  /\ labels = InitLabels
  /\ nextRoomId = 3
  /\ nextUnitId = 4
  /\ bookings = {}
  /\ nextBookingId = 1
  /\ blocks = {}
  /\ nextBlockId = 1
  /\ seasons \in {T \in RateTables : Disjoint(T)}
  /\ nextSeasonId = Cardinality(seasons) + 1
  /\ audit = [i \in 1..Cardinality(seasons) |->
                LogEntry(First({r \in seasons : r.id = i}).site, "Admin",
                         "Add Season", i, "x")]
  /\ last = NoRequest
  /\ txn = [p \in Procs |-> Idle]
  /\ users = InitUsers
  /\ nextUserId = Cardinality(InitUsers) + 1
  /\ cookie = NoCookie

\* One quote per rate table: a quote leaves the store as it found it.
NextPrice ==
  \E site \in Sites, room \in RoomIds, a \in Days, b \in Days,
     n \in {1, MaxRoomsNeeded} :
     /\ last.op = "none"
     /\ a <= b
     /\ api_calculate_price(site, room, a, b, n)

SpecPrice == InitPrice /\ [][NextPrice]_vars

\* ------------------------------------------------------------- front desk
\* Guests and the back office of the tenants working on the bookings, one
\* request at a time.
StayDays == 0..(MaxDay - 1)

\* (tenant addressed, room type asked for); <<2, 1>> asks tenant 2 for a
\* room type of tenant 1.
GuestTargets == {<<1, 1>>, <<2, 2>>, <<2, 1>>}

AdminStatuses == {"confirmed", "checked_out"}

NextBooking ==
  \/ \E t \in GuestTargets, a \in StayDays, b \in StayDays,
        n \in 1..MaxRoomsNeeded :
        a <= b + 1 /\ book_confirm(t[1], t[2], a, b, n)
  \/ \E u \in {None, 1, 2}, a \in StayDays, b \in StayDays,
        st \in AdminStatuses :
        a < b /\ new_booking_save(1, 1, u, a, b, st)
  \/ \E id \in 1..MaxAudit, a \in StayDays, b \in StayDays, u \in {1, 2},
        st \in AdminStatuses :
        a < b /\ edit_booking_save(1, id, a, b, u, st)
  \/ \E id \in 1..MaxAudit : delete_booking(1, id)
  \/ \E site \in Sites, u \in UnitIds, a \in StayDays, b \in StayDays :
        a < b /\ add_maintenance(site, u, a, b)
  \/ \E site \in Sites, id \in 1..MaxAudit : delete_maintenance(site, id)

SpecBooking == Init /\ [][NextBooking]_vars

\* ------------------------------------------------------------- inventory
\* Stays and maintenance blocks come in, by guests and by the back offices,
\* and the inventory check is asked about the tenants' own room types.
OwnTargets == {<<1, 1>>, <<2, 2>>}

NextAvail ==
  \/ \E t \in OwnTargets, a \in StayDays, b \in StayDays,
        n \in 1..MaxRoomsNeeded :
        a < b /\ book_confirm(t[1], t[2], a, b, n)
  \/ \E u \in {1, 2}, a \in StayDays, b \in StayDays, st \in AdminStatuses :
        a < b /\ new_booking_save(1, 1, u, a, b, st)
  \/ \E site \in Sites, u \in UnitIds, a \in StayDays, b \in StayDays :
        a < b /\ add_maintenance(site, u, a, b)
  \/ \E t \in OwnTargets, a \in StayDays, b \in StayDays :
        a < b /\ inventory_check(t[1], t[2], a, b)

SpecAvail == Init /\ [][NextAvail]_vars

\* ------------------------------------------------------------- assignment
\* The back office of tenant 1 enters confirmed stays, among them one of
\* long ago, and guests book rooms of room type 1.

\* The date of a stay whose check-out lies more than NoPriorGap seconds
\* before every check-in a guest asks for.
LongAgo == 0 - (NoPriorGap \div (SecondsPerHour * HoursPerDay)) - 1

EnteredStays ==
  {<<a, b>> \in StayDays \X StayDays : a < b} \cup {<<LongAgo, LongAgo + 1>>}

NextAssign ==
  \/ \E u \in {1, 2}, r \in EnteredStays :
        new_booking_save(1, 1, u, r[1], r[2], "confirmed")
  \/ \E a \in StayDays, b \in StayDays, n \in 1..MaxRoomsNeeded :
        a < b /\ book_confirm(1, 1, a, b, n)

SpecAssign == Init /\ [][NextAssign]_vars

\* ------------------------------------------------------------- fragmentation
\* The back office of tenant 1 enters confirmed stays of room type 1 with
\* the unit picked from the list of all units, and guests book rooms of
\* either tenant.
NextFragment ==
  \/ \E u \in UnitIds, a \in StayDays, b \in StayDays :
        a < b /\ new_booking_save(1, 1, u, a, b, "confirmed")
  \/ \E t \in OwnTargets, a \in StayDays, b \in StayDays,
        n \in 1..MaxRoomsNeeded :
        a < b /\ book_confirm(t[1], t[2], a, b, n)

SpecFragment == Init /\ [][NextFragment]_vars

\* ------------------------------------------------------------- room desk
\* The back office of tenant 1 adds, edits and deletes room types and enters
\* stays of room type 1; the unit of a stay comes from a form that lists
\* units 1 and 2, the units room type 1 starts with.

\* qty is any int of the form; -1 stands for the negative ones.
Quantities == (0 - 1)..MaxQty

ListedPrice == 100 * Unit

\* The roles a session can carry: add_user stores the role the form gives.
Roles == {"admin", "staff", "owner"}

NextRoom ==
  \/ \E qty \in Quantities : add_room(1, ListedPrice, qty)
  \/ \E room_id \in 1..MaxRoomId, qty \in Quantities :
        edit_room_action(1, room_id, ListedPrice, qty)
  \/ \E role \in Roles, room_id \in 1..MaxRoomId, today \in {0, MaxDay} :
        delete_room(1, role, room_id, today)
  \/ \E u \in {None, 1, 2}, b \in StayDays, st \in AdminStatuses :
        0 < b /\ new_booking_save(1, 1, u, 0, b, st)

SpecRoom == Init /\ [][NextRoom]_vars

\* ------------------------------------------------------------- edit desk
\* The back office of tenant 1 enters stays of room type 1 from day 0 in
\* unit 1 and edits their check-out, unit and status, while the price of
\* the room type and the tenant's rate change.
EditedPrices == {100 * Unit, 120 * Unit}

NextEdit ==
  \/ \E b \in StayDays, st \in AdminStatuses :
        0 < b /\ new_booking_save(1, 1, 1, 0, b, st)
  \/ \E id \in 1..MaxAudit, b \in StayDays, u \in {1, 2},
        st \in AdminStatuses :
        0 < b /\ edit_booking_save(1, id, 0, b, u, st)
  \/ \E price \in EditedPrices :
        edit_room_action(1, 1, price, rooms[1].qty)
  \/ add_season(1, None, 0, MaxDay, Unit + Unit \div 2)
  \/ \E id \in 1..MaxAudit : delete_season(1, id)

SpecEdit == Init /\ [][NextEdit]_vars

\* ------------------------------------------------------------- search
\* Guests search and book, and the back office of tenant 1 enters stays and
\* blocks units of room type 1.
NextSearch ==
  \/ \E site \in Sites, a \in Days, b \in Days : hotel_search(site, a, b)
  \/ \E t \in OwnTargets, a \in StayDays, b \in StayDays :
        a < b /\ book_confirm(t[1], t[2], a, b, 1)
  \/ \E u \in {1, 2}, a \in StayDays, b \in StayDays, st \in AdminStatuses :
        a < b /\ new_booking_save(1, 1, u, a, b, st)
  \/ \E u \in {1, 2}, a \in StayDays, b \in StayDays :
        a < b /\ add_maintenance(1, u, a, b)

SpecSearch == Init /\ [][NextSearch]_vars

\* ------------------------------------------------------------- calendar
\* The statuses the front desk gives the stays it enters.
DeskStatuses == {"confirmed", "checked_in"}

\* Guests book, the back office of tenant 1 enters stays and blocks units of
\* room type 1, and the calendar is drawn for a room type or for all.
NextCalendar ==
  \/ \E a \in Days, b \in Days, room_id \in {None} \cup 1..MaxRoomId :
        get_calendar_events(a, b, room_id)
  \/ \E t \in OwnTargets, a \in StayDays, b \in StayDays :
        a < b /\ book_confirm(t[1], t[2], a, b, 1)
  \/ \E u \in {1, 2}, a \in StayDays, b \in StayDays, st \in DeskStatuses :
        a < b /\ new_booking_save(1, 1, u, a, b, st)
  \/ \E u \in {1, 2}, a \in StayDays, b \in StayDays :
        a < b /\ add_maintenance(1, u, a, b)

SpecCalendar == Init /\ [][NextCalendar]_vars

\* ------------------------------------------------------------- nights
\* Guests ask for quotes and book rooms of the tenant they address.
NextNights ==
  \/ \E t \in OwnTargets, a \in Days, b \in Days, n \in 1..MaxRoomsNeeded :
        api_calculate_price(t[1], t[2], a, b, n)
  \/ \E t \in OwnTargets, a \in Days, b \in Days, n \in 1..MaxRoomsNeeded :
        a < b /\ book_confirm(t[1], t[2], a, b, n)

SpecNights == Init /\ [][NextNights]_vars

\* ------------------------------------------------------------- overselling
\* Guests book any room type through the pages of either tenant, one request
\* at a time, for one night or more or for none; the back office of tenant 1
\* enters stays, of its room type or not, and both tenants block their units.
NextOversell ==
  \/ \E site \in Sites, room_id \in RoomIds, a \in StayDays, b \in StayDays,
        n \in 1..MaxRoomsNeeded :
        a <= b /\ book_confirm(site, room_id, a, b, n)
  \/ \E room_id \in RoomIds, a \in StayDays, b \in StayDays :
        a <= b /\ new_booking_save(1, room_id, 1, a, b, "confirmed")
  \/ \E u \in UnitIds, a \in StayDays, b \in StayDays :
        a < b /\ add_maintenance(InitRooms[InitUnits[u]].site, u, a, b)

SpecOversell == Init /\ [][NextOversell]_vars

\* ------------------------------------------------------------- references
\* Guests book through the pages of a tenant, for its room type or for
\* another's; the back office of tenant 1 enters and edits stays of its room
\* type, naming any unit there is.
NextRefs ==
  \/ \E t \in GuestTargets, a \in StayDays, b \in StayDays :
        a <= b /\ book_confirm(t[1], t[2], a, b, 1)
  \/ \E u \in {None} \cup UnitIds, b \in StayDays :
        0 < b /\ new_booking_save(1, 1, u, 0, b, "confirmed")
  \/ \E id \in 1..MaxAudit, b \in StayDays, u \in UnitIds,
        st \in AdminStatuses :
        0 < b /\ edit_booking_save(1, id, 0, b, u, st)

SpecRefs == Init /\ [][NextRefs]_vars

\* ------------------------------------------------------------- sessions
\* One browser: users and the owner log in at the login page of a tenant,
\* admins add users, and the back office of a tenant is asked for.
NextLogin ==
  \/ \E username \in {"h1_ad", "h2_ad", "h2_user", OwnerName},
        password \in 0..MaxUserId, context \in Sites :
        login_action(username, password, context)
  \/ \E ext \in Sites, username \in {"h1_ad", "h2_ad"},
        role \in {"admin", "staff"} :
        add_user(ext, username, role)
  \/ \E ext \in Sites : hotel_admin(ext)

SpecLogin == Init /\ [][NextLogin]_vars

\* ------------------------------------------------------------- two workers
\* book_confirm served by two worker processes, each with its own session:
\* the queries of a request read the store as it is when they run, its rows
\* reach the store at db.commit().

\* The request arrives; the inventory check runs.
book_confirm_check(p, site, room_id, check_in, check_out, rooms_needed) ==
  LET c_in  == DT(check_in, CheckInHour)
      c_out == DT(check_out, CheckOutHour)
      avail == check_inventory_availability(site, room_id, c_in, c_out,
                                            rooms[room_id].qty)
      cur   == [Idle EXCEPT !.site = site, !.room = room_id,
                  !.ci = check_in, !.co = check_out, !.n = rooms_needed,
                  !.read = bookings]
  IN  /\ txn[p].pc = "idle"
      /\ txn' = [txn EXCEPT ![p] =
                   IF ~avail[1] \/ avail[2] < rooms_needed
                   THEN [cur EXCEPT !.pc = "done", !.result = "insufficient"]
                   ELSE [cur EXCEPT !.pc = "checked"]]
      /\ UNCHANGED <<accounts, inventory, bookings, nextBookingId, blocks,
                     nextBlockId, seasons, nextSeasonId, audit, last>>

\* The assignment loop and the pricing run.
book_confirm_assign(p) ==
  LET t     == txn[p]
      c_in  == DT(t.ci, CheckInHour)
      c_out == DT(t.co, CheckOutHour)
      total_one == calculate_price(t.site, t.room, c_in, c_out, 1)
  IN  /\ t.pc = "checked"
      /\ \E assigned_units \in Assignments(t.room, c_in, c_out, t.n, <<>>) :
            txn' = [txn EXCEPT ![p] =
                      IF total_one = Raised
                      THEN [t EXCEPT !.pc = "done", !.result = "error"]
                      ELSE [t EXCEPT !.pc = "assigned",
                              !.assigned_units = assigned_units,
                              !.total_one = total_one,
                              !.total_all = FMulInt(total_one, t.n)]]
      /\ UNCHANGED <<accounts, inventory, bookings, nextBookingId, blocks,
                     nextBlockId, seasons, nextSeasonId, audit, last>>

\* The rows are added and committed.
book_confirm_commit(p) ==
  LET t == txn[p]
  IN  /\ t.pc = "assigned"
      /\ InsertBookings(t.site, t.room, DT(t.ci, CheckInHour),
                        DT(t.co, CheckOutHour), t.assigned_units, t.total_one)
      /\ txn' = [txn EXCEPT ![p] =
                   [t EXCEPT !.pc = "done", !.result = "ok",
                      !.stale = (bookings # t.read)]]
      /\ UNCHANGED <<accounts, inventory, blocks, nextBlockId, seasons,
                     nextSeasonId, last>>

\* The stores the two requests can find: room type 1 with or without a
\* confirmed stay in unit 1 over the nights 0 and 1, with or without unit 2
\* blocked for night 0.
EarlierBooking ==
  Booking(1, 1, 1, 1, DT(0, CheckInHour), DT(2, CheckOutHour), "confirmed",
          calculate_price(1, 1, DT(0, CheckInHour), DT(2, CheckOutHour), 1))

EarlierBlock ==
  [id |-> 1, room |-> 1, unit |-> 2, start |-> 0, end |-> 1, qty |-> 1]

InitRace ==
  /\ rooms = InitRooms
  /\ units = InitUnits
  /\ labels = InitLabels
  /\ nextRoomId = 3
  /\ nextUnitId = 4
  /\ seasons = {}
  /\ nextSeasonId = 1
  /\ bookings \in {{}, {EarlierBooking}}
  /\ nextBookingId = Cardinality(bookings) + 1
  /\ blocks \in {{}, {EarlierBlock}}
  /\ nextBlockId = Cardinality(blocks) + 1
  /\ audit = (IF bookings = {} THEN <<>>
              ELSE <<LogEntry(1, "Admin", "Create Booking", 1, "manual")>>)
             \o (IF blocks = {} THEN <<>>
                 ELSE <<LogEntry(1, "Admin", "Block Unit", 2, "reason")>>)
  /\ last = NoRequest
  /\ txn = [p \in Procs |-> Idle]
  /\ users = InitUsers
  /\ nextUserId = Cardinality(InitUsers) + 1
  /\ cookie = NoCookie

NextRace ==
  \/ \E p \in Procs, a \in StayDays, b \in StayDays, n \in 1..MaxRoomsNeeded :
        a < b /\ book_confirm_check(p, 1, 1, a, b, n)
  \/ \E p \in Procs : book_confirm_assign(p)
  \/ \E p \in Procs : book_confirm_commit(p)

SpecRace == InitRace /\ [][NextRace]_vars

\* ------------------------------------------------------------- one request
\* The back office of tenant 1 enters stays and blocks units of room type 1;
\* then one guest request for the room type runs from its check to its
\* commit with nothing in between.
NextUnits ==
  \/ \E u \in {1, 2}, a \in StayDays, b \in StayDays, st \in AdminStatuses :
        /\ txn[1].pc = "idle"
        /\ a < b
        /\ new_booking_save(1, 1, u, a, b, st)
  \/ \E u \in {1, 2}, a \in StayDays, b \in StayDays :
        /\ txn[1].pc = "idle"
        /\ a < b
        /\ add_maintenance(1, u, a, b)
  \/ \E a \in StayDays, b \in Days, n \in 1..MaxRoomsNeeded :
        a < b /\ book_confirm_check(1, 1, 1, a, b, n)
  \/ book_confirm_assign(1)
  \/ book_confirm_commit(1)

SpecUnits == Init /\ [][NextUnits]_vars

\* ------------------------------------------------------------- parties
\* A guest books up to MaxParty rooms of room type 1 at once, served by
\* worker 1, while the back office of tenant 1 grows the room type to
\* MaxParty units and enters a tenant-wide rate of 1.125.
NextTotal ==
  \/ edit_room_action(1, 1, ListedPrice, MaxParty)
  \/ add_season(1, None, 0, MaxDay, Unit + Unit \div 8)
  \/ \E a \in StayDays, b \in StayDays, n \in 1..MaxParty :
        a < b /\ book_confirm_check(1, 1, 1, a, b, n)
  \/ book_confirm_assign(1)
  \/ book_confirm_commit(1)

SpecTotal == Init /\ [][NextTotal]_vars

\* ------------------------------------------------------------- claims
\* The float sum, night by night, of price_per_night * m(d) over the dates
\* a, a+1, ..., b-1.
RECURSIVE NightSum(_, _, _, _)
NightSum(m, price, a, b) ==
  IF b <= a THEN 0
  ELSE FAdd(NightSum(m, price, a, b - 1), FMul(price, m[b - 1]))

\* The multipliers calculate_price looks up for the last quote.
QuoteMultipliers ==
  [d \in Days |-> Multiplier(last.site, last.room, d)]

Quoted == last.op = "calculate_price" /\ last.result = "ok"

\* The price of one unit of the last quote's room type over [a, b).
UnitPrice(a, b) ==
  calculate_price(last.site, last.room, DT(a, CheckInHour),
                  DT(b, CheckOutHour), 1)

\* C6: for check-in on date a at 14:00 and check-out on date b > a at 11:00,
\* calculate_price returns count times the sum over the b - a dates
\* a .. b-1 of price_per_night * multiplier(d): the check-out date is not
\* charged and the count multiplies the night-sum once, at the end, so the
\* price of N units is N times the price of one; base price 100 under a 1.5
\* rate gives 300 for two nights.
C6_PriceIsCountTimesNightSum ==
  Quoted =>
    /\ last.total =
         FMulInt(NightSum(QuoteMultipliers, rooms[last.room].price,
                          last.ci, last.co), last.n)
    /\ last.total = FMulInt(UnitPrice(last.ci, last.co), last.n)
    /\ ( /\ rooms[last.room].price = 100 * Unit
         /\ last.co = last.ci + 2
         /\ last.n = 1
         /\ \A d \in last.ci..(last.co - 1) :
               QuoteMultipliers[d] = Unit + Unit \div 2 )
       => last.total = 300 * Unit

\* A two-night quote for one unit at base price 100 under a 1.5 rate.
C6_Witness ==
  /\ Quoted
  /\ rooms[last.room].price = 100 * Unit
  /\ last.co = last.ci + 2
  /\ last.n = 1
  /\ \A d \in last.ci..(last.co - 1) : QuoteMultipliers[d] = Unit + Unit \div 2
  /\ last.total = 300 * Unit

\* C7 as stated: for d1 < d2 < d3 the price of one unit over [d1, d3) equals
\* the price over [d1, d2) plus the price over [d2, d3).
C7_AdditiveExactly ==
  (Quoted /\ last.n = 1) =>
     \A d2 \in (last.ci + 1)..(last.co - 1) :
        last.total = FAdd(UnitPrice(last.ci, d2), UnitPrice(d2, last.co))

\* The night-sum in exact arithmetic, with no rounding of products or sums.
RECURSIVE ExactSum(_, _, _, _)
ExactSum(m, price, a, b) ==
  IF b <= a THEN 0
  ELSE ExactSum(m, price, a, b - 1) + (price \div Unit) * m[b - 1]

Unrounded(a, b) ==
  UnitPrice(a, b) = ExactSum(QuoteMultipliers, rooms[last.room].price, a, b)

\* C7 as amended: the split is exact when its second part is a single night
\* and whenever none of the three prices differs from its exact night-sum;
\* otherwise float rounding may make the two sides differ.
C7_AdditiveUpToRounding ==
  (Quoted /\ last.n = 1) =>
     \A d2 \in (last.ci + 1)..(last.co - 1) :
        (d2 = last.co - 1 \/
           (Unrounded(last.ci, last.co) /\ Unrounded(last.ci, d2)
              /\ Unrounded(d2, last.co)))
        => last.total = FAdd(UnitPrice(last.ci, d2), UnitPrice(d2, last.co))

\* A three-night quote whose running sum was rounded.
C7_Witness ==
  /\ Quoted
  /\ last.n = 1
  /\ last.co = last.ci + 3
  /\ ~Unrounded(last.ci, last.co)
  /\ last.total = FAdd(UnitPrice(last.ci, last.co - 1),
                       UnitPrice(last.co - 1, last.co))

\* The rate of one night by the rule of the rate calendar: a rate of the
\* tenant for the room type whose range holds the date, else a tenant-wide
\* rate of the tenant whose range holds it, else 1.0.
RuleMultiplier(site, room, d) ==
  LET Holds(s) == s.start <= d /\ d <= s.end
      own  == {s \in seasons : s.site = site /\ s.room = room /\ Holds(s)}
      wide == {s \in seasons : s.site = site /\ s.room = None /\ Holds(s)}
  IN  IF own # {} THEN (CHOOSE s \in own : TRUE).mult
      ELSE IF wide # {} THEN (CHOOSE s \in wide : TRUE).mult
      ELSE Unit

\* C8: the multiplier calculate_price uses for a night is the room type's
\* rate of the tenant if one holds the date, else the tenant-wide rate of the
\* tenant if one holds it, else 1.0; the two are never combined and rates of
\* other tenants or room types never apply.
C8_RoomRateThenTenantRateThenOne ==
  Quoted =>
    last.total =
      FMulInt(NightSum([d \in Days |-> RuleMultiplier(last.site, last.room, d)],
                       rooms[last.room].price, last.ci, last.co), last.n)

\* A one-night quote on a date held by a room-type rate and by a different
\* tenant-wide rate of the same tenant: the room-type rate alone is charged.
C8_Witness ==
  /\ Quoted
  /\ last.co = last.ci + 1
  /\ \E o \in seasons, w \in seasons :
        /\ o.site = last.site /\ o.room = last.room
        /\ w.site = last.site /\ w.room = None
        /\ o.start <= last.ci /\ last.ci <= o.end
        /\ w.start <= last.ci /\ last.ci <= w.end
        /\ o.mult # w.mult
        /\ last.total = FMulInt(FMul(rooms[last.room].price, o.mult), last.n)

\* Two rates of one tenant and one scope hold a common date.
Overlapping(a, b) ==
  /\ a.site = b.site
  /\ a.room = b.room
  /\ \E d \in Days : a.start <= d /\ d <= a.end /\ b.start <= d /\ d <= b.end

\* C9: after any sequence of add_season and delete_season no two rates of one
\* tenant and scope hold a common date, and add_season stores a rate only if
\* its end is after its start and it overlaps no stored rate of its scope
\* (any other request leaves the rates unchanged).
C9_RatesNeverOverlap ==
  /\ [](\A a \in seasons, b \in seasons : a # b => ~Overlapping(a, b))
  /\ [][last'.op = "add_season" =>
          IF last'.result = "ok"
          THEN \E r \in seasons' :
                  /\ r \notin seasons
                  /\ seasons' = seasons \cup {r}
                  /\ r.start < r.end
                  /\ \A s \in seasons : ~Overlapping(r, s)
          ELSE seasons' = seasons]_vars

\* Two rates of one scope side by side, and a third request just refused.
C9_Witness ==
  /\ last.op = "add_season"
  /\ last.result = "overlap"
  /\ \E a \in seasons, b \in seasons :
        a # b /\ a.site = b.site /\ a.room = b.room

\* ------------------------------------------------------------- inventory claims
\* The nights of a stay from date a to date b.
Nights(a, b) == a..(b - 1)

\* Active bookings of the room type whose stay includes night d.
NightLoad(room, d) ==
  Cardinality({b \in bookings :
                  /\ b.room = room
                  /\ b.status \in {"pending", "confirmed", "checked_in"}
                  /\ DateOf(b.check_in) <= d
                  /\ d < DateOf(b.check_out)})

\* The summed qty_blocked of the blocks of the room type covering night d.
NightBlocked(room, d) ==
  SumQty({m \in blocks : m.room = room /\ m.start <= d /\ d < m.end})

Remaining(room, d) ==
  rooms[room].qty - NightLoad(room, d) - NightBlocked(room, d)

\* The step is a book_confirm request that created its bookings: one new
\* row per room asked for, for the stay asked for.
Created ==
  /\ last'.result = "ok"
  /\ bookings \subseteq bookings'
  /\ Cardinality(bookings' \ bookings) = last'.n
  /\ \A b \in bookings' \ bookings :
        /\ b.site = last'.site
        /\ b.room = last'.room
        /\ DateOf(b.check_in) = last'.ci
        /\ DateOf(b.check_out) = last'.co

\* The step is a book_confirm request refused for lack of inventory.
Refused ==
  /\ last'.result = "insufficient"
  /\ bookings' = bookings

C2_RefusalChangesNothing ==
  [][(last'.op = "book_confirm" /\ last'.result = "insufficient")
       => (bookings' = bookings /\ audit' = audit)]_vars

\* Two rooms were asked for and refused while one was left: a maintenance
\* block covers the whole stay for one of the two units.
C2_Witness ==
  /\ last.op = "book_confirm"
  /\ last.result = "insufficient"
  /\ last.n = 2
  /\ last.ci < last.co
  /\ \A d \in Nights(last.ci, last.co) : Remaining(last.room, d) = 1
  /\ \E m \in blocks :
        m.room = last.room /\ m.start <= last.ci /\ m.end >= last.co

\* C3: a book_confirm request whose check-out is not after its check-in
\* fails as an invalid range and creates no booking and no audit entry.
C3_InvalidRangeRefused ==
  [][(last'.op = "book_confirm" /\ last'.co <= last'.ci)
       => (/\ last'.result = "invalid_range"
           /\ bookings' = bookings
           /\ audit' = audit)]_vars

\* C4: two confirmed bookings of the same unit never overlap.
C4_ConfirmedStaysDisjoint ==
  \A b1 \in bookings, b2 \in bookings :
     (/\ b1.id # b2.id
      /\ b1.status = "confirmed"
      /\ b2.status = "confirmed"
      /\ b1.unit # None
      /\ b1.unit = b2.unit)
       => (b1.check_out <= b2.check_in \/ b2.check_out <= b1.check_in)

\* More active bookings than rooms in service, on some night.
Oversold ==
  \E room \in RoomIds, d \in Days : Remaining(room, d) < 0

\* C5: two interleaved book_confirm requests can oversell, and only they
\* can: whenever a night is oversold, both requests were accepted and one of
\* them committed on an inventory check the other's commit had outdated.
C5_OversoldOnlyByStaleCheck ==
  Oversold =>
    /\ \A p \in Procs : txn[p].result = "ok"
    /\ \E p \in Procs : txn[p].stale
    /\ \E d \in Days : /\ Remaining(txn[1].room, d) < 0
                       /\ \A p \in Procs : d \in Nights(txn[p].ci, txn[p].co)

\* Both requests were accepted for the same room type and a night they
\* share is oversold.
C5_Witness ==
  /\ \A p \in Procs : txn[p].result = "ok"
  /\ txn[1].room = txn[2].room
  /\ \E d \in Days : /\ Remaining(txn[1].room, d) < 0
                     /\ \A p \in Procs : d \in Nights(txn[p].ci, txn[p].co)

\* C10: no unit carries two maintenance blocks covering the same date.
C10_BlocksOfUnitDisjoint ==
  \A m1 \in blocks, m2 \in blocks :
     (m1.id # m2.id /\ m1.unit = m2.unit)
       => (m1.end <= m2.start \/ m2.end <= m1.start)

\* The least remaining count over the nights of a stay from date a to date
\* b (a < b): total_quantity less the most (occupied + blocked) of a night.
RECURSIVE MinRemaining(_, _, _)
MinRemaining(room, a, b) ==
  IF b = a + 1 THEN Remaining(room, a)
  ELSE LET rest == MinRemaining(room, a + 1, b)
       IN  IF Remaining(room, a) < rest THEN Remaining(room, a) ELSE rest

Checked == last.op = "inventory_check"

\* C11 as stated: the count check_inventory_availability returns for a
\* non-empty range is the least of the nightly remaining counts.
C11_CountIsLeastRemaining ==
  Checked => last.n = MinRemaining(last.room, last.ci, last.co)

\* C11, corrected: the range is available exactly when every night has a
\* room left, the count is then the least of the nightly remaining counts,
\* and it is 0 when some night has none left or is oversold.
C11_CountIsLeastRemainingOrZero ==
  Checked =>
    LET least == MinRemaining(last.room, last.ci, last.co)
    IN  /\ (last.result = "available") = (least > 0)
        /\ last.n = IF least > 0 THEN least ELSE 0

\* A two-night range whose second night is the tighter one: the count is
\* that night's, not the first night's.
C11_Witness ==
  /\ Checked
  /\ last.co = last.ci + 2
  /\ last.result = "available"
  /\ last.n = Remaining(last.room, last.ci + 1)
  /\ last.n < Remaining(last.room, last.ci)

\* ------------------------------------------------------------- assignment claims
\* The bookings that make a unit's gap: confirmed, checked-in or checked-out
\* stays of the unit that end at or before the check-in t.
PriorStays(u, t) ==
  {b \in bookings : /\ b.unit = u
                    /\ b.status \in {"confirmed", "checked_in", "checked_out"}
                    /\ b.check_out <= t}

\* Hours from the latest prior check-out of the unit to t.
HoursIdle(u, t) ==
  LET ends == {b.check_out : b \in PriorStays(u, t)}
  IN  t - (CHOOSE e \in ends : \A f \in ends : f <= e)

\* The unit is free over [c_in, c_out): no pending, confirmed or checked-in
\* booking and no maintenance block of it overlaps the stay.
FreeUnit(u, c_in, c_out) ==
  /\ \A b \in bookings :
        (b.unit = u /\ b.status \in {"pending", "confirmed", "checked_in"})
          => (b.check_out <= c_in \/ c_out <= b.check_in)
  /\ \A m \in blocks :
        (m.unit = u) => (m.end <= DateOf(c_in) \/ DateOf(c_out) <= m.start)

\* The rows a book_confirm step added.
NewRows == bookings' \ bookings

\* The candidates at the assignment step that made row r: the free units of
\* the room type not given to an earlier row of the same call.
StepCandidates(r) ==
  {u \in DOMAIN units :
     /\ units[u] = r.room
     /\ FreeUnit(u, r.check_in, r.check_out)
     /\ \A q \in NewRows : q.id < r.id => q.unit # u}

\* u's gap is no larger than v's, a unit without prior stay having a gap
\* larger than every unit with one.
GapNoLarger(u, v, t) ==
  PriorStays(v, t) # {}
    => (PriorStays(u, t) # {} /\ HoursIdle(u, t) <= HoursIdle(v, t))

\* The same, a unit without prior stay having a gap of 999999999 seconds.
GapNoLargerCapped(u, v, t) ==
  LET secs(x) == IF PriorStays(x, t) # {} THEN HoursIdle(x, t) * 3600
                 ELSE 999999999
  IN  secs(u) <= secs(v)

Accepted == last'.op = "book_confirm" /\ last'.result = "ok"

\* C12 as stated: at every assignment step the chosen unit's gap is no
\* larger than any other candidate's, units without prior stay last.
C12_SmallestGapChosen ==
  [][Accepted =>
       \A r \in NewRows :
          r.unit # None =>
            \A v \in StepCandidates(r) : GapNoLarger(r.unit, v, r.check_in)]_vars

\* C12, corrected: the same with a unit without prior stay counted at
\* 999999999 seconds, so that it goes before a unit whose latest prior
\* check-out is longer ago than that.
C12_SmallestCappedGapChosen ==
  [][Accepted =>
       \A r \in NewRows :
          /\ StepCandidates(r) # {} => r.unit \in StepCandidates(r)
          /\ r.unit # None =>
               \A v \in StepCandidates(r) :
                  GapNoLargerCapped(r.unit, v, r.check_in)]_vars

\* One room was booked into the unit whose confirmed stay checks out on the
\* new check-in date, while another unit of the room type had no booking.
C12_Witness ==
  /\ last.op = "book_confirm"
  /\ last.result = "ok"
  /\ last.n = 1
  /\ \E r \in bookings, b \in bookings, v \in DOMAIN units :
        /\ r.id \in last.made
        /\ b.unit = r.unit
        /\ b.status = "confirmed"
        /\ DateOf(b.check_out) = last.ci
        /\ units[v] = r.room
        /\ v # r.unit
        /\ \A q \in bookings : q.unit # v

\* C13: the units one book_confirm call assigns are pairwise distinct,
\* belong to the room type asked for and were free over the stay when the
\* call was made; on a store without bookings and blocks, N rooms of a room
\* type with at least N units get N distinct units.
C13_AssignedUnitsDistinctOwnFree ==
  [][Accepted =>
       /\ \A r \in NewRows :
             r.unit # None =>
               /\ r.unit \in DOMAIN units
               /\ units[r.unit] = last'.room
               /\ FreeUnit(r.unit, r.check_in, r.check_out)
               /\ \A q \in NewRows : q.id # r.id => q.unit # r.unit
       /\ (/\ bookings = {}
           /\ blocks = {}
           /\ last'.n <= Cardinality({u \in DOMAIN units :
                                        units[u] = last'.room}))
            => /\ \A r \in NewRows : r.unit # None
               /\ Cardinality({r.unit : r \in NewRows}) = last'.n]_vars

\* Two rooms of the room type with two units were booked on the empty
\* store: the two bookings hold the two units.
C13_Witness ==
  /\ last.op = "book_confirm"
  /\ last.result = "ok"
  /\ last.n = 2
  /\ blocks = {}
  /\ {b.id : b \in bookings} = last.made
  /\ {b.unit : b \in bookings} = {u \in DOMAIN units : units[u] = last.room}

\* The audit entry book_confirm wrote for row r.
EntryOf(r) == audit'[Len(audit) + 1 + (r.id - nextBookingId)]

\* C14: a step without free unit does not fail the call: all rooms_needed
\* rows are created, a row made at a step without candidate has no unit
\* and an audit entry saying so, every other row has a unit.
C14_UnassignedRowsKept ==
  [][Accepted =>
       /\ Cardinality(NewRows) = last'.n
       /\ Len(audit') = Len(audit) + last'.n
       /\ \A r \in NewRows :
             /\ (r.unit = None) = (StepCandidates(r) = {})
             /\ (EntryOf(r).details = "UNASSIGNED") = (r.unit = None)
             /\ EntryOf(r).target = r.id]_vars

\* A booking was accepted and stored without unit: the room type had a
\* room left on every night, yet its unit was taken over the stay.
C14_Witness ==
  /\ last.op = "book_confirm"
  /\ last.result = "ok"
  /\ \E r \in bookings :
        /\ r.id \in last.made
        /\ r.unit = None
        /\ audit[Len(audit)].details = "UNASSIGNED"
        /\ \A u \in DOMAIN units :
              units[u] = r.room
                => \E b \in bookings : b.unit = u /\ b.id \notin last.made

\* C16: a successful book_confirm for N rooms adds exactly N rows, each
\* pending, with rooms_booked 1 and the tenant, room type and dates of the
\* request, and exactly N audit entries, one per row; the rows and entries
\* there were stay as they were.
C16_AddsNRowsAndNEntries ==
  [][Accepted =>
       /\ bookings \subseteq bookings'
       /\ Cardinality(NewRows) = last'.n
       /\ \A r \in NewRows :
             /\ r.rooms_booked = 1
             /\ r.status = "pending"
             /\ r.site = last'.site
             /\ r.room = last'.room
             /\ r.check_in = DT(last'.ci, 14)
             /\ r.check_out = DT(last'.co, 11)
             /\ \A q \in bookings : q.id # r.id
       /\ Len(audit') = Len(audit) + last'.n
       /\ SubSeq(audit', 1, Len(audit)) = audit
       /\ \A i \in (Len(audit) + 1)..Len(audit') :
             /\ audit'[i].action = "New Booking"
             /\ audit'[i].site = last'.site
             /\ \E r \in NewRows : audit'[i].target = r.id
       /\ \A r \in NewRows :
             Cardinality({i \in (Len(audit) + 1)..Len(audit') :
                            audit'[i].target = r.id}) = 1]_vars

\* One room was booked next to a confirmed stay the back office had entered:
\* there are the old row and one new pending row, and two audit entries.
C16_Witness ==
  /\ last.op = "book_confirm"
  /\ last.result = "ok"
  /\ last.n = 1
  /\ Cardinality(bookings) = 2
  /\ Len(audit) = 2
  /\ \E b \in bookings, r \in bookings :
        /\ b.status = "confirmed"
        /\ b.id \notin last.made
        /\ r.id \in last.made
        /\ r.status = "pending"
        /\ audit[2].target = r.id

\* The five values of a booking's status and the changes its lifecycle
\* allows.
LifecycleStatuses ==
  {"pending", "confirmed", "checked_in", "checked_out", "cancelled"}

LifecycleMoves ==
  {<<"pending", "confirmed">>, <<"confirmed", "checked_in">>,
   <<"checked_in", "checked_out">>, <<"pending", "cancelled">>,
   <<"confirmed", "cancelled">>, <<"checked_in", "cancelled">>}

\* C17: every change of a booking's status is a move of the lifecycle
\* (pending -> confirmed -> checked_in -> checked_out, or to cancelled from
\* before check-out), so checked_out and cancelled are final, and every
\* status is one of the five lifecycle values.
C17_StatusFollowsLifecycle ==
  [][/\ \A b \in bookings' : b.status \in LifecycleStatuses
     /\ \A b \in bookings, c \in bookings' :
          (b.id = c.id /\ b.status # c.status)
            => <<b.status, c.status>> \in LifecycleMoves]_vars

\* ------------------------------------------------------------- room claims
\* C19: after every add_room and edit_room, each room type has as many unit
\* rows as its total_quantity; an edit_room to qty keeps the first
\* min(qty, existing) units in creation order with the labels of their
\* positions, creates the units of a shortfall and deletes the units beyond
\* qty and only them.
C19_UnitCountIsTotalQuantity ==
  [][/\ \A r \in DOMAIN rooms' :
          Cardinality({u \in DOMAIN units' : units'[u] = r}) = rooms'[r].qty
     /\ (last'.op = "edit_room" /\ last'.result = "ok")
          => LET existing == UnitsOf(last'.room)
                 first == {u \in existing :
                             Position(existing, u) <= last'.n}
             IN  /\ \A u \in first :
                       /\ u \in DOMAIN units'
                       /\ units'[u] = last'.room
                       /\ labels'[u] = Position(existing, u)
                 /\ DOMAIN units \ DOMAIN units' = existing \ first
                 /\ \A u \in DOMAIN units' \ DOMAIN units :
                       units'[u] = last'.room
                 /\ Cardinality(DOMAIN units' \ DOMAIN units)
                      = IF last'.n > Cardinality(existing)
                        THEN last'.n - Cardinality(existing) ELSE 0]_vars

\* C20: each booking's unit reference is null or the id of an existing
\* unit.
C20_UnitReferencesExist ==
  \A b \in bookings : b.unit = None \/ b.unit \in DOMAIN units

\* ------------------------------------------------------------- edit claims
\* An accepted edit_booking_save step.
Edited == last'.op = "edit_booking" /\ last'.result = "ok"

\* The price of the stay row c holds, at the price and rates of the store.
CurrentPrice(c) ==
  calculate_price(c.site, c.room, c.check_in, c.check_out, c.rooms_booked)

\* C18, as stated: an edit reprices the booking, at the current price and
\* rates over the submitted dates times rooms_booked, exactly when the
\* submitted status or dates differ from the stored ones, and leaves
\* total_price alone otherwise.
C18_RepricedIffStatusOrDatesDiffer ==
  [][Edited =>
       \A b \in bookings, c \in bookings' :
          (b.id = c.id /\ b.id \in last'.made)
            => IF \/ b.status # c.status
                  \/ b.check_in # c.check_in
                  \/ b.check_out # c.check_out
               THEN c.total_price = CurrentPrice(c)
               ELSE c.total_price = b.total_price]_vars

\* C18, amended: an edit reprices the booking exactly when the submitted
\* dates differ from the stored ones; an edit that changes the status, the
\* unit or nothing at all leaves total_price alone.
C18_RepricedIffDatesDiffer ==
  [][Edited =>
       \A b \in bookings, c \in bookings' :
          (b.id = c.id /\ b.id \in last'.made)
            => IF \/ b.check_in # c.check_in
                  \/ b.check_out # c.check_out
               THEN c.total_price = CurrentPrice(c)
               ELSE c.total_price = b.total_price]_vars

\* The last entry of the audit log records a status change of the booking
\* just edited, and the booking still holds a price that is not the current
\* one.
C18_Witness ==
  /\ last.op = "edit_booking"
  /\ last.result = "ok"
  /\ Len(audit) = MaxAudit
  /\ audit[1].action = "Create Booking"
  /\ audit[MaxAudit].action = "Update Booking"
  /\ \E b \in bookings :
        /\ b.id \in last.made
        /\ audit[MaxAudit].target = b.id
        /\ audit[MaxAudit].details = b.status
        /\ b.total_price # CurrentPrice(b)

\* ------------------------------------------------------------- party claims
\* The total_price values of the rows B added up, without rounding.
RECURSIVE SumTotals(_)
SumTotals(B) ==
  IF B = {} THEN 0
  ELSE LET r == CHOOSE x \in B : TRUE
       IN  r.total_price + SumTotals(B \ {r})

\* The request of worker p is committed in this step.
Commits(p) == txn[p].pc = "assigned" /\ txn'[p].pc = "done"

\* C15, as stated: each row a book_confirm call for N rooms creates stores
\* the single-unit price the call computed, and the N rows' total_price
\* values sum to the guest-facing total of the call.
C15_RowsSumToGuestTotal ==
  [][\A p \in Procs :
        Commits(p) =>
          /\ Cardinality(NewRows) = txn[p].n
          /\ \A r \in NewRows : r.total_price = txn[p].total_one
          /\ SumTotals(NewRows) = txn[p].total_all]_vars

\* C15, amended: each row stores the single-unit price; the guest-facing
\* total is the float product of that price and N, which is the rows' sum
\* rounded to the nearest float, and is the rows' sum itself for N <= 2.
C15_RowsSumToGuestTotalRounded ==
  [][\A p \in Procs :
        Commits(p) =>
          /\ Cardinality(NewRows) = txn[p].n
          /\ \A r \in NewRows : r.total_price = txn[p].total_one
          /\ Fl(SumTotals(NewRows)) = txn[p].total_all
          /\ txn[p].n <= 2 => SumTotals(NewRows) = txn[p].total_all]_vars

\* A committed request for three rooms whose rows add up to another amount
\* than the guest was shown.
C15_Witness ==
  \E p \in Procs :
     /\ txn[p].pc = "done"
     /\ txn[p].result = "ok"
     /\ txn[p].n = 3
     /\ LET rows == {r \in bookings : r.check_in = DT(txn[p].ci, CheckInHour)
                                      /\ r.check_out = DT(txn[p].co, CheckOutHour)
                                      /\ r.total_price = txn[p].total_one}
        IN  /\ Cardinality(rows) = 3
            /\ SumTotals(rows) # txn[p].total_all

\* ------------------------------------------------------------- rate range claims
\* A quote for one night, the night of date last.ci.
QuotedOneNight == Quoted /\ last.co = last.ci + 1

\* The rates of the quote's tenant for the quote's room type, or tenant-wide
\* where no rate for the room type takes the night, that take the night of
\* date d when Takes says which dates a rate takes.
RatesTaking(Takes(_, _), d) ==
  LET own  == {r \in seasons : /\ r.site = last.site
                               /\ r.room = last.room
                               /\ Takes(r, d)}
      wide == {r \in seasons : /\ r.site = last.site
                               /\ r.room = None
                               /\ Takes(r, d)}
  IN  IF own # {} THEN own ELSE wide

\* The price of the quoted night under multiplier m.
NightAt(m) == FMulInt(FMul(rooms[last.room].price, m), last.n)

UpToEndDate(r, d) == r.start <= d /\ d < r.end
ThroughEndDate(r, d) == r.start <= d /\ d <= r.end

\* C21, as stated: a rate applies to the nights of the dates d with
\* start_date <= d < end_date; the night of its end date is priced at the
\* base rate unless another rate takes it.
C21_RateAppliesUpToEndDate ==
  QuotedOneNight =>
    /\ \A r \in RatesTaking(UpToEndDate, last.ci) :
          last.total = NightAt(r.mult)
    /\ RatesTaking(UpToEndDate, last.ci) = {} => last.total = NightAt(Unit)

\* C21, amended: a rate applies to the nights of the dates d with
\* start_date <= d <= end_date, the night of its end date included; a
\* night no rate takes is priced at the base rate.
C21_RateAppliesThroughEndDate ==
  QuotedOneNight =>
    /\ \A r \in RatesTaking(ThroughEndDate, last.ci) :
          last.total = NightAt(r.mult)
    /\ RatesTaking(ThroughEndDate, last.ci) = {} => last.total = NightAt(Unit)

\* The quoted night is the night of the end date of the only rate that
\* takes it, and the quote is not the base price.
C21_Witness ==
  /\ QuotedOneNight
  /\ \E r \in seasons :
        /\ RatesTaking(ThroughEndDate, last.ci) = {r}
        /\ r.end = last.ci
        /\ last.total = NightAt(r.mult)
        /\ last.total # NightAt(Unit)

\* ------------------------------------------------------------- search claims
\* The answer of book_confirm's inventory check for room type r and the
\* dates of the last search, on the store the search read.
ConfirmCheck(r) ==
  check_inventory_availability(last.site, r, DT(last.ci, CheckInHour),
                               DT(last.co, CheckOutHour), rooms[r].qty)

Searched == last.op = "hotel_search" /\ last.result = "ok"

\* C22: hotel_search lists a room type with count c exactly when
\* book_confirm's inventory check, for the same store, room type and dates,
\* reports it available with count c; a stay that checks out on the
\* requested check-in date lowers the count of neither.
C22_SearchAgreesWithConfirm ==
  Searched =>
    \A r \in {q \in DOMAIN rooms : rooms[q].site = last.site} :
       \A c \in 0..rooms[r].qty :
          (\E x \in last.made : x[1] = r /\ x[2] = c)
            <=> ConfirmCheck(r) = <<TRUE, c>>


\* ------------------------------------------------------------- calendar claims
\* A calendar drawn for an existing room type.
Drawn ==
  /\ last.op = "get_calendar_events"
  /\ last.result = "ok"
  /\ last.room \in DOMAIN rooms

\* The availability engine asked about the single night of date d for the
\* room type of the last calendar request, of the tenant that owns it.
NightAvailable(d) ==
  check_inventory_availability(rooms[last.room].site, last.room,
                               DT(d, CheckInHour), DT(d + 1, CheckOutHour),
                               rooms[last.room].qty)[1]

\* C23: for every room type and date, get_calendar_events draws the date as
\* available exactly when the availability engine, asked about that single
\* night, reports it available.
C23_CalendarAgreesWithEngine ==
  Drawn => \A d \in last.ci..(last.co - 1) :
              d \in last.made <=> NightAvailable(d)


\* ------------------------------------------------------------- night claims
\* The nights calculate_price charges: the passes of its loop from curr.
RECURSIVE NightsCharged(_, _)
NightsCharged(curr, end) ==
  IF curr < end THEN 1 + NightsCharged(curr + HoursPerDay, end) ELSE 0

\* C29: the nights api_calculate_price and book_confirm report with a total
\* are the nights calculate_price charged for it, the check-out date minus
\* the check-in date.
C29_ReportedNightsAreChargedNights ==
  (last.op \in {"calculate_price", "book_confirm"} /\ last.result = "ok") =>
     /\ last.nights = NightsCharged(DT(last.ci, CheckInHour),
                                    DT(last.co, CheckOutHour))
     /\ last.nights = last.co - last.ci


\* ------------------------------------------------------------- overselling
\* The active bookings of room type r that occupy the night of date d.
OccupyingNight(r, d) ==
  {b \in bookings : /\ b.room = r
                    /\ b.status \in ActiveStatuses
                    /\ DateOf(b.check_in) <= d
                    /\ d < DateOf(b.check_out)}

\* The blocks of room type r that cover the night of date d.
BlockingNight(r, d) == {m \in blocks : m.room = r /\ m.start <= d /\ d < m.end}

\* No night of any room type holds more stays and blocks than the type has
\* units.
NotOversold ==
  \A r \in DOMAIN rooms, d \in Days :
     Cardinality(OccupyingNight(r, d)) + SumQty(BlockingNight(r, d))
       <= rooms[r].qty

\* C24: a whole book_confirm taken from a state in which no night is
\* oversold, inventory and blocks staying as they are, leaves no night
\* oversold.
C24_BookConfirmNeverOversells ==
  [][(NotOversold /\ last'.op = "book_confirm") => NotOversold']_vars


\* A booking request was accepted although a block or a stay entered by the
\* back office already held a unit of the type on a night of the stay, and
\* that night is now full.
C24_Witness ==
  /\ last.op = "book_confirm"
  /\ last.result = "ok"
  /\ last.ci < last.co
  /\ \E d \in last.ci..(last.co - 1) :
        /\ Cardinality(OccupyingNight(last.room, d))
             + SumQty(BlockingNight(last.room, d)) = rooms[last.room].qty
        /\ \/ BlockingNight(last.room, d) # {}
           \/ \E b \in OccupyingNight(last.room, d) : b.status = "confirmed"


\* ------------------------------------------------------------- unit claims
\* Each room type has as many units as its total_quantity, and every active
\* booking and every block of a type names one of the type's units.
UnitsConsistent ==
  /\ \A r \in DOMAIN rooms : Cardinality(UnitsOf(r)) = rooms[r].qty
  /\ \A b \in bookings :
        b.status \in ActiveStatuses => b.unit \in UnitsOf(b.room)
  /\ \A m \in blocks : m.unit \in UnitsOf(m.room)

\* The request of worker 1, whose check passed, commits its rows.
CommitsAlone == txn[1].pc = "assigned" /\ txn'[1].pc = "done"

\* The units of the requested room type free over the requested stay.
FreeForStay ==
  {u \in UnitsOf(txn[1].room) :
     FreeUnit(u, DT(txn[1].ci, CheckInHour), DT(txn[1].co, CheckOutHour))}

AssignedRows == {r \in NewRows : r.unit # None}

\* C25 as stated: with the units consistent, a request that passed the check
\* and ran alone gives every one of its bookings a unit.
C25_CheckedRoomsGetUnits ==
  [][(UnitsConsistent /\ CommitsAlone) => NewRows = AssignedRows]_vars

\* C25, amended: with the units consistent, a request for N rooms that passed
\* the check and ran alone gives a unit to as many of its N bookings as
\* units of the type are free over the whole stay, to all N when N units are
\* free; the rest are stored without unit.
C25_FreeUnitsAreAssigned ==
  [][(UnitsConsistent /\ CommitsAlone) =>
       /\ Cardinality(NewRows) = txn[1].n
       /\ Cardinality(AssignedRows) =
            (IF Cardinality(FreeForStay) < txn[1].n
             THEN Cardinality(FreeForStay) ELSE txn[1].n)]_vars

\* A request for a stay during which a unit of the type was taken, by a stay
\* or a block, got a unit for each of its bookings.
C25_Witness ==
  /\ txn[1].pc = "done"
  /\ txn[1].result = "ok"
  /\ \E r \in bookings : r.status = "pending"
  /\ \A r \in bookings : r.status = "pending" => r.unit # None
  /\ \E u \in UnitsOf(txn[1].room) :
        \/ \E b \in bookings : /\ b.unit = u
                               /\ b.status = "confirmed"
                               /\ b.check_in < DT(txn[1].co, CheckOutHour)
                               /\ b.check_out > DT(txn[1].ci, CheckInHour)
        \/ \E m \in blocks : /\ m.unit = u
                             /\ m.start < txn[1].co
                             /\ m.end > txn[1].ci


\* Each room type has as many units as its total_quantity and every active
\* booking names a unit.
UnitsReferenced ==
  /\ \A r \in DOMAIN rooms : Cardinality(UnitsOf(r)) = rooms[r].qty
  /\ \A b \in bookings : b.status \in ActiveStatuses => b.unit # None

\* The inventory check of worker 1's request is made.
Checks == txn[1].pc = "idle" /\ txn'[1].pc \in {"checked", "done"}

\* The units of the room type free over the stay the check is made for.
FreeForCheck ==
  {u \in UnitsOf(txn'[1].room) :
     FreeUnit(u, DT(txn'[1].ci, CheckInHour), DT(txn'[1].co, CheckOutHour))}

\* C26 as stated: with every active booking on a unit, a request for N rooms
\* is accepted whenever N units of the type are free over the stay.
C26_FreeUnitsAreBookable ==
  [][(UnitsReferenced /\ Checks /\ Cardinality(FreeForCheck) >= txn'[1].n)
       => txn'[1].pc = "checked"]_vars


\* ------------------------------------------------------------- references
\* C27: the unit of every booking that has one is a unit of the booking's
\* room type, and that room type is one of the booking's tenant.
C27_UnitAndTenantMatch ==
  \A b \in bookings :
     /\ b.unit # None => (b.unit \in DOMAIN units /\ units[b.unit] = b.room)
     /\ b.room \in DOMAIN rooms
     /\ rooms[b.room].site = b.site


\* ------------------------------------------------------------- deleting rooms
\* The request delete_room answers in this step is one the claim lets
\* through: an admin's, for a room type of the tenant, none of whose pending,
\* confirmed or checked-in bookings checks out today or later.
DeleteAllowed ==
  /\ last'.role = "admin"
  /\ last'.room \in DOMAIN rooms
  /\ rooms[last'.room].site = last'.site
  /\ \A b \in bookings :
        (b.room = last'.room /\ b.status \in ActiveStatuses)
          => DateOf(b.check_out) < last'.today

\* C30: delete_room removes a room type, and with it its units and no
\* other, only on a request of an admin for a room type of the tenant without
\* active booking checking out today or later; on every other request room
\* types, units, bookings and audit log stay as they are.
C30_DeleteRoomOnlyWhenAllowed ==
  [][last'.op = "delete_room" =>
       IF DeleteAllowed
       THEN \/ UNCHANGED <<rooms, units>>
            \/ /\ DOMAIN rooms' = DOMAIN rooms \ {last'.room}
               /\ DOMAIN units' = DOMAIN units \ UnitsOf(last'.room)
       ELSE UNCHANGED <<rooms, units, labels, bookings, audit>>]_vars

\* A room type with a past stay on record was deleted.
C30_Witness ==
  /\ last.op = "delete_room"
  /\ last.result = "ok"
  /\ last.room \notin DOMAIN rooms
  /\ \E b \in bookings : b.room = last.room /\ b.status = "confirmed"


\* ------------------------------------------------------------- sessions
\* C28: a session of a user who logged in at tenant X is accepted for the
\* back office of tenant X alone, as that user with that user's role, also
\* when another tenant has a user of the same name.
C28_SessionStaysWithItsUser ==
  (last.op = "hotel_admin" /\ last.result = "ok"
     /\ cookie.role # "admin_owner") =>
       /\ last.site = cookie.config_id
       /\ \E u \in users : /\ u.id = last.id
                           /\ u.username = cookie.sub
                           /\ u.site = cookie.config_id
                           /\ u.role = last.role

=============================================================================
